---------------------------- MODULE Spec2Model ----------------------------
(***************************************************************************)
(* Jocasta: the nomination archival pipeline (jocasta/nominations/          *)
(* archiver.py), the approval and vote gate, the detach step                *)
(* (jocasta/nominations/processor.py) and the command intake of             *)
(* jocasta/core.py, as a state machine over the wiki documents they edit.   *)
(*                                                                          *)
(* A document's text is a sequence of lines; a line is a record             *)
(* [k, s, n]: k the kind of markup the code's patterns recognise on the     *)
(* line, s and n what distinguishes two lines of the same kind.             *)
(***************************************************************************)
EXTENDS Integers, Sequences, FiniteSets, TLC

VARIABLES
    cmd,        \* the ArchiveCommand being handled
    author,     \* the message author: role and display name
    env,        \* configuration and clock: nomination type data, time zone, opt-outs
    docs,       \* the wiki: every document the pipeline reads or writes
    pc,         \* position of the handler in the pipeline
    result,     \* what process_archive_command returned for the last run
    loc,        \* local variables of archive_process_after_check
    writes,     \* documents put by the current run, in order
    saved,      \* content each document had right after the current run put it
    runs,       \* finished runs, oldest first: command, outcome, failing step
    iofails,    \* wiki writes that raised so far
    runstart,   \* the wiki as it was when the current run began
    docs0       \* the wiki as it was before the first command

vars == <<cmd, author, env, docs, pc, result, loc, writes, saved, runs, iofails, runstart, docs0>>

----------------------------------------------------------------------------
(* Bounds of the model *)

MaxRuns == 2
MaxIOFailures == 1
MaxDeviations == 2
MaxVotes == 4
MaxParentLen == 4
MaxAgeHours == 60
MaxTalkLen == 4
MaxDepth == 3

----------------------------------------------------------------------------
(* Lines and messages *)

L(k) == [k |-> k, s |-> "", n |-> 0]
LS(k, s) == [k |-> k, s |-> s, n |-> 0]
LN(k, n) == [k |-> k, s |-> "", n |-> n]
LSN(k, s, n) == [k |-> k, s |-> s, n |-> n]

HasKind(lines, k) == \E i \in DOMAIN lines : lines[i].k = k

CountKind(lines, k) == Cardinality({i \in DOMAIN lines : lines[i].k = k})

NoErr == [kind |-> "", n1 |-> 0, n2 |-> 0, n3 |-> 0]
Err(kind) == [kind |-> kind, n1 |-> 0, n2 |-> 0, n3 |-> 0]
ErrN(kind, a, b, c) == [kind |-> kind, n1 |-> a, n2 |-> b, n3 |-> c]

\* an archive_process that wraps no exception in a result
IsArchiveException_never(e) == FALSE

\* an exception that is not an ArchiveException (raised by the wiki client)
IsArchiveException(e) == e.kind \notin {"", "IOError", "NoPage", "IsRedirectPage", "ParentMissing"}

----------------------------------------------------------------------------
(* User names: sequences of characters, compared as are_users_different does *)

Lower(c) == CASE c = "A" -> "a" [] c = "B" -> "b" [] c = "C" -> "c" [] OTHER -> c

LowerSeq(u) == [i \in DOMAIN u |-> Lower(u[i])]

ReplaceUnderscore(u) == [i \in DOMAIN u |-> IF u[i] = "_" THEN " " ELSE u[i]]

RemoveDots(u) == SelectSeq(u, LAMBDA c : c # ".")

are_users_different(u1, u2) ==
    LowerSeq(ReplaceUnderscore(u1)) # LowerSeq(RemoveDots(ReplaceUnderscore(u2)))

Bot == <<"J", "B">>
Nominator == <<"A", "_", "b">>
Requesters == { <<"a", " ", "B">>, <<"C", "d">> }

----------------------------------------------------------------------------
(* Results of a step of the pipeline: the wiki after it, the exception it   *)
(* raised (NoErr if none), the documents it put, the locals after it.       *)

StepResult(d, e, w, l) == [d |-> d, err |-> e, w |-> w, l |-> l]

Put(d, name, content) == [d EXCEPT ![name] = content]

----------------------------------------------------------------------------
(* Step 2, detach: processor.remove_subpage_from_parent.                    *)
(* Lines of the parent index page: "trans" is the line {{/subpage}}         *)
(* (s = "pad": with blanks around it), "embed" a line that contains         *)
(* {{/subpage}} among other text, "blank" an empty or whitespace-only line, *)
(* "other" any other line.                                                  *)

ContainsExpected(lines) == \E i \in DOMAIN lines : lines[i].k \in {"trans", "embed"}

StripEqualsExpected(line) == line.k = "trans"

StripIsEmpty(line) == line.k = "blank"

RECURSIVE detach_loop(_, _, _, _, _)
detach_loop(lines, i, found, white, new_lines) ==
    IF i > Len(lines) THEN [found |-> found, new_lines |-> new_lines]
    ELSE IF ~found THEN
        IF StripEqualsExpected(lines[i])
        THEN detach_loop(lines, i + 1, TRUE, TRUE, new_lines)
        ELSE detach_loop(lines, i + 1, found, white, Append(new_lines, lines[i]))
    ELSE IF white THEN
        IF ~StripIsEmpty(lines[i])
        THEN detach_loop(lines, i + 1, found, FALSE, Append(new_lines, lines[i]))
        ELSE detach_loop(lines, i + 1, found, white, new_lines)
    ELSE detach_loop(lines, i + 1, found, white, Append(new_lines, lines[i]))

\* a detach step that raises on retry as well
remove_subpage_from_parent_strict(d, l, retry, io) ==
    IF ~d.parent.exists THEN StepResult(d, Err("ParentMissing"), <<>>, l)
    ELSE LET r == detach_loop(d.parent.lines, 1, FALSE, FALSE, <<>>) IN
        IF ~r.found THEN StepResult(d, Err("TransclusionNotFound"), <<>>, l)
        ELSE IF io # "ok" THEN StepResult(d, Err("IOError"), <<>>, l)
        ELSE StepResult(Put(d, "parent", [d.parent EXCEPT !.lines = r.new_lines]),
                        NoErr, <<"parent">>, l)

remove_subpage_from_parent(d, l, retry, io) ==
    IF ~d.parent.exists THEN StepResult(d, Err("ParentMissing"), <<>>, l)
    ELSE IF ~ContainsExpected(d.parent.lines) THEN
        IF retry THEN StepResult(d, NoErr, <<>>, l)
        ELSE StepResult(d, Err("TransclusionNotFound"), <<>>, l)
    ELSE LET r == detach_loop(d.parent.lines, 1, FALSE, FALSE, <<>>) IN
        IF ~r.found THEN
            IF retry THEN StepResult(d, NoErr, <<>>, l)
            ELSE StepResult(d, Err("TransclusionNotFound"), <<>>, l)
        ELSE IF io # "ok" THEN StepResult(d, Err("IOError"), <<>>, l)
        ELSE StepResult(Put(d, "parent", [d.parent EXCEPT !.lines = r.new_lines]),
                        NoErr, <<"parent">>, l)

----------------------------------------------------------------------------
(* The approval and vote gate: Archiver.check_approval_and_fields.          *)
(* The nomination subpage carries what the gate's patterns read:            *)
(*   nomLink, nomDate   the "Nominated by" field has a user link, a date    *)
(*   approved           "none": no approval template; "clean"; "leak_fix":  *)
(*                      a user link in it that the substitution removes;    *)
(*                      "leak_stuck": one that it does not remove           *)
(*   ageHours           hours between the first revision and now            *)
(*   inVotesCat         membership of the type's votes category             *)
(*   votes              the lines of the voting area, each                  *)
(*                      [sec, hash, tpl, user, date]: its section, whether  *)
(*                      it starts with #, the board template on it, whether *)
(*                      it has a user reference and a timestamp             *)

VoteLine(sec, hash, tpl, user, date) ==
    [sec |-> sec, hash |-> hash, tpl |-> tpl, user |-> user, date |-> date]

\* text between the Support and the Object section markers
extract_support_section(votes) == SelectSeq(votes, LAMBDA v : v.sec = "support")

CountTemplate(lines, tpl) == Cardinality({i \in DOMAIN lines : lines[i].tpl = tpl})

\* an age without the two hours the code adds to the offset
diff_days_no_shift(n, e) == (n.ageHours + e.timezone_offset) \div 24

\* an age that counts one day less
diff_days_short(n, e) == (n.ageHours + e.timezone_offset + 2) \div 24 - 1

diff_days(n, e) == (n.ageHours + e.timezone_offset + 2) \div 24

\* a count that needs more board votes than fast_review_votes
check_vote_counts_for_approval_more(nd, found, total_votes, inq_votes, user_votes) ==
    IF found > nd.fast_review_votes THEN NoErr
    ELSE IF found >= nd.min_review_votes /\ total_votes >= nd.min_total_votes THEN NoErr
    ELSE ErrN("VoteDeficit", found, user_votes, 0)

\* a count that lets a reviewer-org vote cover a missing board vote for every type
check_vote_counts_for_approval_any_type(nd, found, total_votes, inq_votes, user_votes) ==
    IF found >= nd.fast_review_votes THEN NoErr
    ELSE IF found >= nd.min_review_votes /\ total_votes >= nd.min_total_votes THEN NoErr
    ELSE IF nd.nom_type = "FAN" /\ found >= nd.min_review_votes + 1
            /\ total_votes >= nd.min_total_votes - 1 THEN NoErr
    ELSE IF inq_votes >= 1 THEN
        IF found = nd.fast_review_votes - 1 THEN NoErr
        ELSE IF found = nd.min_review_votes - 1 /\ total_votes >= nd.min_total_votes THEN NoErr
        ELSE ErrN("VoteDeficitGAN", found, inq_votes, user_votes)
    ELSE ErrN("VoteDeficit", found, user_votes, 0)

check_vote_counts_for_approval(nd, found, total_votes, inq_votes, user_votes) ==
    IF found >= nd.fast_review_votes THEN NoErr
    ELSE IF found >= nd.min_review_votes /\ total_votes >= nd.min_total_votes THEN NoErr
    ELSE IF nd.nom_type = "FAN" /\ found >= nd.min_review_votes + 1
            /\ total_votes >= nd.min_total_votes - 1 THEN NoErr
    ELSE IF nd.nom_type = "GAN" /\ inq_votes >= 1 THEN
        IF found = nd.fast_review_votes - 1 THEN NoErr
        ELSE IF found = nd.min_review_votes - 1 /\ total_votes >= nd.min_total_votes THEN NoErr
        ELSE ErrN("VoteDeficitGAN", found, inq_votes, user_votes)
    ELSE ErrN("VoteDeficit", found, user_votes, 0)

check_vote_fields(votes) ==
    LET missing_user == Cardinality({i \in DOMAIN votes : ~votes[i].user})
        missing_date == Cardinality({i \in DOMAIN votes : votes[i].user /\ ~votes[i].date})
    IN  IF missing_date > 0 /\ missing_user > 0
        THEN ErrN("MissingDatesAndUsers", missing_date, missing_user, 0)
        ELSE IF missing_date > 0 THEN ErrN("MissingDates", missing_date, 0, 0)
        ELSE IF missing_user > 0 THEN ErrN("MissingUsers", missing_user, 0, 0)
        ELSE NoErr

\* a gate that looks at the age of the page before the approval marker
check_approval_and_fields_age_first(n, nd, retry, e) ==
    IF ~n.nomLink THEN Err("MissingNominatorLink")
    ELSE IF ~n.nomDate THEN Err("MissingNominationDate")
    ELSE IF diff_days(n, e) < 2 THEN ErrN("TooYoung", diff_days(n, e), 0, 0)
    ELSE IF n.approved = "none" THEN Err("NotApproved")
    ELSE IF n.approved = "leak_stuck" THEN Err("ApprovalHasUsername")
    ELSE IF ~n.inVotesCat THEN
        IF retry THEN NoErr ELSE Err("InsufficientVotes")
    ELSE IF diff_days(n, e) >= 7 THEN NoErr
    ELSE LET text_to_search == extract_support_section(n.votes)
             found == CountTemplate(text_to_search, nd.template)
             votes == SelectSeq(text_to_search, LAMBDA v : v.hash)
             inq_votes == IF nd.nom_type = "FAN" THEN 0
                          ELSE CountTemplate(text_to_search, "inq")
             user_votes == Len(votes) - found - inq_votes
             counted == check_vote_counts_for_approval(nd, found, Len(votes), inq_votes, user_votes)
         IN  IF counted # NoErr THEN counted ELSE check_vote_fields(votes)

check_approval_and_fields(n, nd, retry, e) ==
    IF ~n.nomLink THEN Err("MissingNominatorLink")
    ELSE IF ~n.nomDate THEN Err("MissingNominationDate")
    ELSE IF n.approved = "none" THEN Err("NotApproved")
    ELSE IF n.approved = "leak_stuck" THEN Err("ApprovalHasUsername")
    ELSE IF diff_days(n, e) < 2 THEN ErrN("TooYoung", diff_days(n, e), 0, 0)
    ELSE IF ~n.inVotesCat THEN
        IF retry THEN NoErr ELSE Err("InsufficientVotes")
    ELSE IF diff_days(n, e) >= 7 THEN NoErr
    ELSE LET text_to_search == extract_support_section(n.votes)
             found == CountTemplate(text_to_search, nd.template)
             votes == SelectSeq(text_to_search, LAMBDA v : v.hash)
             inq_votes == IF nd.nom_type = "FAN" THEN 0
                          ELSE CountTemplate(text_to_search, "inq")
             user_votes == Len(votes) - found - inq_votes
             counted == check_vote_counts_for_approval(nd, found, Len(votes), inq_votes, user_votes)
         IN  IF counted # NoErr THEN counted ELSE check_vote_fields(votes)

----------------------------------------------------------------------------
(* Revisions of the target article, oldest first: [id, user, c, t], c the   *)
(* kind of the edit summary ("Added": the tag or summary "Added <t>nom";    *)
(* "Successful", "Closing", "Failed": the summaries of the pipeline's own   *)
(* edit for type t; "Mention": a summary that contains "<t>nom"; "other").  *)

Rev(id, user, c, t) == [id |-> id, user |-> user, c |-> c, t |-> t]

NoRevision == Rev(0, <<>>, "", "")

\* former_status, completed and nominated before they are assigned
NoLocals == [former |-> "", comp |-> NoRevision, nomi |-> NoRevision]

CommentOf(c) ==
    IF c.success THEN "Successful" ELSE IF c.withdrawn THEN "Closing" ELSE "Failed"

RECURSIVE nominated_scan(_, _, _)
nominated_scan(revs, i, t) ==
    IF i = 0 THEN NoRevision
    ELSE IF revs[i].c = "Added" /\ revs[i].t = t THEN revs[i]
    ELSE nominated_scan(revs, i - 1, t)

\* page.revisions() yields the newest revision first
calculate_nominated_revision(revs, t) == nominated_scan(revs, Len(revs), t)

RECURSIVE revisions_scan(_, _, _, _, _)
revisions_scan(revs, i, t, comment, completed) ==
    IF i = 0 THEN [comp |-> completed, nomi |-> NoRevision]
    ELSE LET r == revs[i]
             c2 == IF r.c = comment /\ r.t = t THEN r ELSE completed
         IN  IF r.c \in {"Added", "Mention"} /\ r.t = t
             THEN [comp |-> c2, nomi |-> r]
             ELSE revisions_scan(revs, i - 1, t, comment, c2)

calculate_revisions(d, c, l) ==
    LET r == revisions_scan(d.article.revs, Len(d.article.revs), c.nom_type, CommentOf(c), NoRevision)
    IN  IF r.comp = NoRevision THEN StepResult(d, Err("CompletedRevisionNotFound"), <<>>, l)
        ELSE IF r.nomi = NoRevision THEN StepResult(d, Err("NominationRevisionNotFound"), <<>>, l)
        ELSE StepResult(d, NoErr, <<>>, [l EXCEPT !.comp = r.comp, !.nomi = r.nomi])

----------------------------------------------------------------------------
(* Step 3, the target article: Archiver.edit_target_article.                *)
(* top is the status flag of the {{Top}} template: "absent" (no template),  *)
(* "none", a status "ca"/"ga"/"fa", or a former-status flag "fga";          *)
(* nomtpl says whether the {{<type>nom}} template is on the page.           *)

StatusFlag(t) == CASE t = "FA" -> "fa" [] t = "GA" -> "ga" [] OTHER -> "ca"

NextRevId(revs) == IF revs = <<>> THEN 1 ELSE revs[Len(revs)].id + 1

edit_target_article(d, c, l, io) ==
    LET a == d.article
        former_status == IF c.success /\ a.top \in {"ca", "ga", "fa"} THEN a.top ELSE ""
        top2 == IF c.success THEN StatusFlag(c.nom_type) ELSE a.top
        text3 == [a EXCEPT !.top = top2, !.nomtpl = FALSE,
                           !.revs = Append(@, Rev(NextRevId(a.revs), Bot, CommentOf(c), c.nom_type))]
    IN  IF a.redirect THEN StepResult(d, ErrN("RedirectPage", 1, 0, 0), <<>>, l)
        ELSE IF c.success /\ a.top = "absent" THEN StepResult(d, Err("CouldNotAddStatus"), <<>>, l)
        ELSE IF ~a.nomtpl THEN
            IF c.retry THEN StepResult(d, NoErr, <<>>, [l EXCEPT !.former = ""])
            ELSE StepResult(d, Err("CouldNotRemoveTemplate"), <<>>, l)
        ELSE IF io # "ok" THEN StepResult(d, Err("IOError"), <<>>, l)
        ELSE StepResult(Put(d, "article", text3), NoErr, <<"article">>,
                        [l EXCEPT !.former = former_status])

----------------------------------------------------------------------------
(* Step 5, the nomination subpage: Archiver.archive_nomination_page.        *)
(* Lines: "archive" the substituted archive template (its text holds "The   *)
(* following discussion is preserved as an"), "votes" the {{..ANvotes|..}}  *)
(* line (n: how many times |1 was added), "comments" the "Nomination        *)
(* comments" line, "dnw" the DO NOT WRITE BELOW marker, "cat" a line        *)
(* with the nomination category, "wc" the word-count category (s =          *)
(* "nowiki" once wrapped), "archcat" the per-nominator archive category.    *)

RECURSIVE archive_loop(_, _, _, _, _)
archive_loop(lines, i, found, dnw_found, new_lines) ==
    IF i > Len(lines) THEN [found |-> found, new_lines |-> new_lines]
    ELSE LET line == lines[i] IN
        IF line.k = "votes"
        THEN archive_loop(lines, i + 1, found, dnw_found,
                          Append(new_lines, [line EXCEPT !.n = @ + 1]))
        ELSE IF line.k = "comments"
        THEN archive_loop(lines, i + 1, found, dnw_found,
                          new_lines \o <<line, L("dateArchived"), L("wordcount")>>)
        ELSE IF line.k = "dnw"
        THEN archive_loop(lines, i + 1, found, TRUE, new_lines)
        ELSE IF dnw_found
        THEN archive_loop(lines, i + 1, found \/ line.k = "cat", dnw_found, new_lines)
        ELSE IF ~found /\ line.k = "cat"
        THEN archive_loop(lines, i + 1, TRUE, dnw_found, new_lines)
        ELSE IF line.k = "wc" /\ line.s # "nowiki"
        THEN archive_loop(lines, i + 1, found, dnw_found,
                          Append(new_lines, [line EXCEPT !.s = "nowiki"]))
        ELSE archive_loop(lines, i + 1, found, dnw_found, Append(new_lines, line))

ResultWord(c) ==
    IF c.success THEN "successful" ELSE IF c.withdrawn THEN "withdrawn" ELSE "unsuccessful"

archive_nomination_page(d, c, l, io) ==
    LET text == d.nom.lines
        r == archive_loop(text, 1, FALSE, FALSE, <<LS("archive", ResultWord(c))>>)
        create == ~d.archcat.exists
        d1 == IF create THEN Put(d, "archcat", [exists |-> TRUE]) ELSE d
        w1 == IF create THEN <<"archcat">> ELSE <<>>
        sort_text == IF c.success THEN "" ELSE " "
        new_text == r.new_lines \o <<LS("archcat", sort_text), L("enddiv")>>
    IN  IF d.nom.redirect THEN StepResult(d, ErrN("RedirectPage", 2, 0, 0), <<>>, l)
        ELSE IF c.retry /\ HasKind(text, "archive") THEN StepResult(d, NoErr, <<>>, l)
        ELSE IF create /\ io = "raise" THEN StepResult(d, Err("IOError"), <<>>, l)
        ELSE IF ~r.found THEN
            IF c.retry THEN StepResult(d1, NoErr, w1, l)
            ELSE StepResult(d1, Err("CategoryNotFound"), w1, l)
        ELSE IF io = "raise2" \/ (~create /\ io = "raise")
        THEN StepResult(d1, Err("IOError"), w1, l)
        ELSE StepResult(Put(d1, "nom", [d.nom EXCEPT !.lines = new_text]),
                        NoErr, w1 \o <<"nom">>, l)

----------------------------------------------------------------------------
(* Step 6, the talk page: talk_page.build_history_text, build_talk_page and *)
(* Archiver.update_talk_page.  Lines: "talkheader", "status" ({{CA}},       *)
(* {{GA}}, {{FA}}: s the type), "former" ({{FormerGA}}..), "ahh" the        *)
(* history wrapper, "ahm" one history entry (n its oldid), "ahf" the        *)
(* footer, "proj" a project banner (s its template), "other".               *)

TalkResult(c) == IF c.success THEN "Success" ELSE IF c.withdrawn THEN "Withdrawn" ELSE "Failure"

build_history_text(nom_type, res, start, completed) ==
    LET status == IF res \in {"Success", "Kept"} THEN nom_type
                  ELSE IF res = "Probation" THEN "P" \o nom_type
                  ELSE "F" \o nom_type \o "N"
    IN  << LSN("ahm", res, start.id), LSN("ahm", status, completed.id), LS("ahf", status) >>

\* a banner for every related project, with a template or without
ProjectBanners_all(projects, text) == [i \in DOMAIN projects |-> LS("proj", projects[i])]

\* the banner templates of the projects that have one and are not in text
ProjectBanners(projects, text) ==
    LET want == SelectSeq(projects, LAMBDA p : p # "" /\ LS("proj", p) \notin {text[i] : i \in DOMAIN text})
    IN  [i \in DOMAIN want |-> LS("proj", want[i])]

RECURSIVE ahh_loop(_, _, _, _, _, _, _)
ahh_loop(lines, i, found, nom_type, history_text, successful, new_lines) ==
    IF i > Len(lines) THEN [found |-> found, new_lines |-> new_lines]
    ELSE LET line == lines[i] IN
        IF line.k \in {"status", "former"}
        THEN ahh_loop(lines, i + 1, found, nom_type, history_text, successful, new_lines)
        ELSE IF line.k = "ahh"
        THEN ahh_loop(lines, i + 1, TRUE, nom_type, history_text, successful,
                      new_lines \o (IF successful THEN <<LS("status", nom_type)>> ELSE <<>>) \o <<line>>)
        ELSE IF line.k = "ahf"
        THEN ahh_loop(lines, i + 1, found, nom_type, history_text, successful,
                      new_lines
                      \o (IF ~found THEN <<L("ahh")>> \o (IF successful THEN <<LS("status", nom_type)>> ELSE <<>>)
                          ELSE <<>>)
                      \o history_text)
        ELSE ahh_loop(lines, i + 1, found, nom_type, history_text, successful, Append(new_lines, line))

\* an insertion before the header banner, at the front of the page
talkheader_loop_front(lines, i, nom_type, history_text, successful, new_lines) ==
    (IF successful THEN <<LS("status", nom_type)>> ELSE <<>>) \o <<L("ahh")>> \o history_text \o lines

RECURSIVE talkheader_loop(_, _, _, _, _, _)
talkheader_loop(lines, i, nom_type, history_text, successful, new_lines) ==
    IF i > Len(lines) THEN new_lines
    ELSE IF lines[i].k = "talkheader"
    THEN talkheader_loop(lines, i + 1, nom_type, history_text, successful,
                         new_lines \o <<lines[i]>>
                         \o (IF successful THEN <<LS("status", nom_type)>> ELSE <<>>)
                         \o <<L("ahh")>> \o history_text)
    ELSE talkheader_loop(lines, i + 1, nom_type, history_text, successful, Append(new_lines, lines[i]))

\* returns [text, new_text, err]; text = <<>> stands for the empty string
build_talk_page(talk, nom_type, history_text0, successful, projects) ==
    LET banner == IF successful THEN <<LS("status", nom_type)>> ELSE <<>> IN
    IF ~talk.exists
    THEN [text |-> <<>>, err |-> NoErr,
          new_text |-> <<L("talkheader")>> \o banner \o <<L("ahh")>> \o history_text0
                       \o ProjectBanners(projects, <<>>)]
    ELSE LET text == talk.lines
             history_text == history_text0 \o ProjectBanners(projects, text)
         IN  IF HasKind(text, "ahh")
             THEN LET r == ahh_loop(text, 1, FALSE, nom_type, history_text, successful, <<>>)
                  IN  [text |-> text, new_text |-> r.new_lines,
                       err |-> IF r.found THEN NoErr ELSE Err("AhfNotFound")]
             ELSE IF ~HasKind(text, "talkheader")
             THEN [text |-> text, err |-> NoErr,
                   new_text |-> <<L("talkheader")>> \o banner \o <<L("ahh")>> \o history_text \o text]
             ELSE [text |-> text, err |-> NoErr,
                   new_text |-> talkheader_loop(text, 1, nom_type, history_text, successful, <<>>)]

\* "|oldid=<a>" is a substring of "|oldid=<b>" when a is a decimal prefix of b
RECURSIVE IsDecimalPrefix(_, _)
IsDecimalPrefix(a, b) == a = b \/ (b >= 10 /\ IsDecimalPrefix(a, b \div 10))

OldidInText(text, revid) ==
    \E i \in DOMAIN text : text[i].k = "ahm" /\ IsDecimalPrefix(revid, text[i].n)

update_talk_page(d, c, l, io) ==
    LET nom_type == IF c.nom_type = "JA" THEN "CA" ELSE c.nom_type
        history_text == build_history_text(nom_type, TalkResult(c), l.nomi, l.comp)
        b == build_talk_page(d.talk, nom_type, history_text, c.success, d.nom.projects)
    IN  IF b.err # NoErr THEN StepResult(d, b.err, <<>>, l)
        ELSE IF b.text # <<>> /\ OldidInText(b.text, l.comp.id) THEN StepResult(d, NoErr, <<>>, l)
        ELSE IF io # "ok" THEN StepResult(d, Err("IOError"), <<>>, l)
        ELSE StepResult(Put(d, "talk", [d.talk EXCEPT !.exists = TRUE, !.lines = b.new_text]),
                        NoErr, <<"talk">>, l)

----------------------------------------------------------------------------
(* Step 7, the history table: Archiver.build_history_row and                *)
(* update_nomination_history.  Lines: "row" one table row (s the outcome,   *)
(* n the revisions its two dates come from), "end" the table's closing |}.  *)

RowKey(nominated, completed) == nominated.id * 100 + completed.id

build_history_row(c, nominated, completed) ==
    LSN("row", IF c.success THEN "Success" ELSE IF c.withdrawn THEN "Withdrawn" ELSE "Failure",
        RowKey(nominated, completed))

\* a history step that does not look for the row before it appends it
RowInText_never(row, text) == FALSE

RowInText(row, text) == \E i \in DOMAIN text : text[i] = row

RECURSIVE replace_end(_, _, _)
replace_end(text, i, new_lines) ==
    IF i > Len(text) THEN <<>>
    ELSE (IF text[i].k = "end" THEN new_lines \o <<text[i]>> ELSE <<text[i]>>)
         \o replace_end(text, i + 1, new_lines)

update_nomination_history(d, rows, retry, l, io) ==
    LET text == d.history.lines
        new_lines == SelectSeq(rows, LAMBDA row : ~(retry /\ RowInText(row, text)))
    IN  IF ~d.history.exists THEN StepResult(d, Err("NoPage"), <<>>, l)
        ELSE IF new_lines = <<>> THEN StepResult(d, NoErr, <<>>, l)
        ELSE IF io # "ok" THEN StepResult(d, Err("IOError"), <<>>, l)
        ELSE StepResult(Put(d, "history", [d.history EXCEPT !.lines = replace_end(text, 1, new_lines)]),
                        NoErr, <<"history">>, l)

----------------------------------------------------------------------------
(* Step 8, after a success: remove_article_from_previous_status_page and    *)
(* leave_talk_page_message.  Listing page lines: "entry" a line whose only  *)
(* link is the article, "multi" a line with several links, one of them the  *)
(* article, "other".  User talk lines: "notify" one notification (its text  *)
(* holds the words "has been approved" after the article's link), "other".  *)

ListedStatuses == {"fa", "ga", "ca"}

remove_article_from_previous_status_page(d, former_status, l, io) ==
    IF former_status \notin ListedStatuses THEN StepResult(d, NoErr, <<>>, l)
    ELSE LET page == d.listing[former_status]
             lines == SelectSeq(page.lines, LAMBDA line : line.k # "entry")
         IN  IF ~page.exists THEN StepResult(d, NoErr, <<>>, l)
             ELSE IF HasKind(page.lines, "multi") THEN StepResult(d, NoErr, <<>>, l)
             ELSE IF io # "ok" THEN StepResult(d, Err("IOError"), <<>>, l)
             ELSE StepResult(Put(d, "listing", [d.listing EXCEPT ![former_status].lines = lines]),
                             NoErr, <<"listing">>, l)

leave_talk_page_message(d, header, retry, e, l, io) ==
    IF e.optout THEN StepResult(d, NoErr, <<>>, l)
    ELSE IF ~d.usertalk.exists THEN StepResult(d, NoErr, <<>>, l)
    ELSE IF retry /\ HasKind(d.usertalk.lines, "notify") THEN StepResult(d, NoErr, <<>>, l)
    ELSE IF io # "ok" THEN StepResult(d, Err("IOError"), <<>>, l)
    ELSE StepResult(Put(d, "usertalk", [d.usertalk EXCEPT !.lines = @ \o <<L("blank"), LS("notify", header)>>]),
                    NoErr, <<"usertalk">>, l)

----------------------------------------------------------------------------
(* Step 1, preconditions: Archiver.get_page_and_nom and the head of         *)
(* archive_process_after_check.                                             *)

get_page_and_nom(d, c, e) ==
    IF ~d.article.exists THEN Err("TargetMissing")
    ELSE IF ~d.nom.exists THEN Err("NomPageMissing")
    ELSE IF c.success THEN
        IF d.nom.redirect THEN Err("IsRedirectPage")
        ELSE check_approval_and_fields(d.nom, e.nom_data[c.nom_type], c.retry, e)
    ELSE NoErr

\* a redirect check that leaves the talk page out
check_for_redirect_pages_no_talk(d) ==
    IF d.article.redirect THEN ErrN("RedirectPage", 1, 0, 0)
    ELSE IF d.nom.redirect THEN ErrN("RedirectPage", 2, 0, 0)
    ELSE NoErr

check_for_redirect_pages(d) ==
    IF d.article.redirect THEN ErrN("RedirectPage", 1, 0, 0)
    ELSE IF d.nom.redirect THEN ErrN("RedirectPage", 2, 0, 0)
    ELSE IF d.talk.redirect THEN ErrN("RedirectPage", 3, 0, 0)
    ELSE NoErr

check_requester(d, c) ==
    IF c.bypass THEN NoErr
    ELSE LET nom_revision == calculate_nominated_revision(d.article.revs, c.nom_type)
         IN  IF nom_revision = NoRevision THEN Err("NominationRevisionNotFound")
             ELSE IF are_users_different(nom_revision.user, c.requested_by) THEN Err("WrongRequester")
             ELSE NoErr

after_check_head(d, c, l) ==
    IF check_requester(d, c) # NoErr THEN StepResult(d, check_requester(d, c), <<>>, l)
    ELSE StepResult(d, check_for_redirect_pages(d), <<>>, l)

----------------------------------------------------------------------------
(* The command intake: JocastaBot.should_accept and handle_archive_command. *)

\* an intake that takes a successful command from any user, without bypass
should_accept_anyone(a, c) ==
    IF a.role = "owner" THEN [accept |-> TRUE, bypass |-> TRUE]
    ELSE IF a.role = "board" THEN [accept |-> TRUE, bypass |-> TRUE]
    ELSE [accept |-> TRUE, bypass |-> FALSE]

should_accept(a, c) ==
    IF a.role = "owner" THEN [accept |-> TRUE, bypass |-> TRUE]
    ELSE IF a.role = "board" THEN [accept |-> TRUE, bypass |-> TRUE]
    ELSE IF ~c.success THEN [accept |-> TRUE, bypass |-> FALSE]
    ELSE [accept |-> FALSE, bypass |-> FALSE]

----------------------------------------------------------------------------
(* The pipeline of archive_process_after_check, one step per position.      *)

\* a pipeline that updates the history table before the talk page
NextStep_history_first(step) ==
    CASE step = "pre" -> "check"
      [] step = "check" -> "detach"
      [] step = "detach" -> "article"
      [] step = "article" -> "revisions"
      [] step = "revisions" -> "nompage"
      [] step = "nompage" -> "history"
      [] step = "history" -> "talk"
      [] step = "talk" -> "former"
      [] step = "former" -> "notify"
      [] OTHER -> "done"

NextStep(step) ==
    CASE step = "pre" -> "check"
      [] step = "check" -> "detach"
      [] step = "detach" -> "article"
      [] step = "article" -> "revisions"
      [] step = "revisions" -> "nompage"
      [] step = "nompage" -> "talk"
      [] step = "talk" -> "history"
      [] step = "history" -> "former"
      [] step = "former" -> "notify"
      [] OTHER -> "done"

StepOp(step, d, c, l, e, io) ==
    CASE step = "check" -> after_check_head(d, c, l)
      [] step = "detach" ->
            IF ~c.multiple THEN remove_subpage_from_parent(d, l, c.retry, io)
            ELSE StepResult(d, NoErr, <<>>, l)
      [] step = "article" -> edit_target_article(d, c, l, io)
      [] step = "revisions" -> calculate_revisions(d, c, l)
      [] step = "nompage" -> archive_nomination_page(d, c, l, io)
      [] step = "talk" -> update_talk_page(d, c, l, io)
      [] step = "history" ->
            IF ~c.multiple
            THEN update_nomination_history(d, <<build_history_row(c, l.nomi, l.comp)>>, c.retry, l, io)
            ELSE StepResult(d, NoErr, <<>>, l)
      [] step = "former" ->
            IF c.success /\ l.former # ""
            THEN remove_article_from_previous_status_page(d, l.former, l, io)
            ELSE StepResult(d, NoErr, <<>>, l)
      [] step = "notify" ->
            IF c.success /\ c.custom_message
            THEN leave_talk_page_message(d, "custom", c.retry, e, l, io)
            ELSE IF c.success /\ c.send_message
            THEN leave_talk_page_message(d, "article", c.retry, e, l, io)
            ELSE StepResult(d, NoErr, <<>>, l)

----------------------------------------------------------------------------
(* The initial wiki and command.  The baseline is a well-formed successful  *)
(* FA nomination closed by a review-board member; an initial state departs  *)
(* from it in at most MaxDeviations of the respects named here.             *)

Deviations == {
    "unsuccessful", "withdrawn", "retry", "nomessage", "custom", "plain", "owner", "self",
    "optout",
    "parent.absent", "parent.embed", "parent.last",
    "article.missing", "article.redirect", "article.notop", "article.ga", "article.fga",
    "article.nonom", "article.norev", "article.prevcycle",
    "archcat.exists",
    "nom.missing", "nom.redirect", "nom.nocat", "nom.archived", "nom.belowcat", "nom.projects",
    "nom.young", "nom.grace", "nom.deficit", "nom.notincat", "nom.leakfix", "nom.notapproved",
    "talk.missing", "talk.redirect", "talk.ahh", "talk.bare", "talk.noahf",
    "history.missing", "history.noend",
    "listing.missing", "listing.multi",
    "usertalk.missing" }

\* deviations that exclude one another
Groups == {
    {"unsuccessful", "withdrawn"}, {"plain", "owner", "self"},
    {"parent.absent", "parent.embed", "parent.last"},
    {"article.missing", "article.redirect"}, {"article.notop", "article.ga", "article.fga"},
    {"article.norev", "article.prevcycle"},
    {"nom.missing", "nom.redirect"}, {"nom.nocat", "nom.archived", "nom.belowcat"},
    {"nom.young", "nom.grace"}, {"nom.deficit", "nom.grace"}, {"nom.leakfix", "nom.notapproved"},
    {"talk.missing", "talk.redirect", "talk.ahh", "talk.bare", "talk.noahf"},
    {"history.missing", "history.noend"}, {"listing.missing", "listing.multi"} }

Compatible(v) == \A g \in Groups : Cardinality(v \cap g) <= 1

RECURSIVE DevSets(_)
DevSets(k) ==
    IF k = 0 THEN {{}}
    ELSE LET S == DevSets(k - 1) IN S \cup {s \cup {x} : s \in S, x \in Deviations}

Command(v) ==
    [ success |-> ~("unsuccessful" \in v \/ "withdrawn" \in v),
      withdrawn |-> "withdrawn" \in v,
      nom_type |-> "FA",
      retry |-> "retry" \in v,
      bypass |-> FALSE,
      multiple |-> FALSE,
      send_message |-> "nomessage" \notin v,
      custom_message |-> "custom" \in v,
      requested_by |-> IF "self" \in v THEN <<"a", " ", "B">> ELSE <<"C", "d">> ]

Author(v) ==
    [ role |-> IF "plain" \in v \/ "self" \in v THEN "plain"
               ELSE IF "owner" \in v THEN "owner" ELSE "board",
      name |-> IF "self" \in v THEN <<"a", " ", "B">> ELSE <<"C", "d">> ]

NomData == [ t \in {"FA", "GA", "CA"} |->
    [ nom_type |-> t \o "N",
      template |-> CASE t = "FA" -> "inq" [] t = "GA" -> "ac" [] OTHER -> "ec",
      fast_review_votes |-> 3, min_review_votes |-> 2, min_total_votes |-> 4 ] ]

Env(v) == [ nom_data |-> NomData, timezone_offset |-> 0, optout |-> "optout" \in v ]

BoardVote(t) == VoteLine("support", TRUE, NomData[t].template, TRUE, TRUE)
UserVote == VoteLine("support", TRUE, "", TRUE, TRUE)

ParentPage(v) ==
    [ exists |-> TRUE,
      lines |-> IF "parent.absent" \in v THEN << LN("other", 1), L("blank"), LN("other", 2) >>
                ELSE IF "parent.embed" \in v THEN << LN("other", 1), L("embed"), LN("other", 2) >>
                ELSE IF "parent.last" \in v THEN << LN("other", 1), L("blank"), L("trans") >>
                ELSE << LN("other", 1), L("trans"), L("blank"), LN("other", 2) >> ]

ArticlePage(v) ==
    [ exists |-> "article.missing" \notin v,
      redirect |-> "article.redirect" \in v,
      top |-> IF "article.notop" \in v THEN "absent"
              ELSE IF "article.ga" \in v THEN "ga"
              ELSE IF "article.fga" \in v THEN "fga" ELSE "none",
      nomtpl |-> "article.nonom" \notin v,
      revs |-> IF "article.norev" \in v THEN << Rev(1, <<"C", "d">>, "other", "") >>
               ELSE IF "article.prevcycle" \in v
               THEN << Rev(1, Nominator, "Added", "FA"), Rev(2, Bot, "Successful", "FA"),
                       Rev(3, Bot, "Failed", "FA"), Rev(4, Nominator, "Added", "FA") >>
               ELSE << Rev(1, <<"C", "d">>, "other", ""), Rev(2, Nominator, "Added", "FA"),
                       Rev(3, <<"C", "d">>, "other", "") >> ]

NomPage(v) ==
    [ exists |-> "nom.missing" \notin v,
      redirect |-> "nom.redirect" \in v,
      lines |-> IF "nom.nocat" \in v THEN << L("other"), L("votes"), L("comments") >>
                ELSE IF "nom.archived" \in v
                THEN << LS("archive", "unsuccessful"), L("other"), LN("votes", 1), L("comments"),
                        L("dateArchived"), L("wordcount"), LS("archcat", " "), L("enddiv") >>
                ELSE IF "nom.belowcat" \in v
                THEN << L("other"), L("votes"), L("comments"), L("wc"), L("dnw"), L("other"), L("cat") >>
                ELSE << L("other"), L("votes"), L("comments"), L("cat"), L("dnw"), L("other") >>,
      projects |-> IF "nom.projects" \in v THEN << "P", "" >> ELSE << >>,
      nomLink |-> TRUE,
      nomDate |-> TRUE,
      approved |-> IF "nom.notapproved" \in v THEN "none"
                   ELSE IF "nom.leakfix" \in v THEN "leak_fix" ELSE "clean",
      ageHours |-> IF "nom.young" \in v THEN 30 ELSE IF "nom.grace" \in v THEN 200 ELSE 100,
      inVotesCat |-> "nom.notincat" \notin v,
      votes |-> IF "nom.grace" \in v THEN << >>
                ELSE IF "nom.deficit" \in v THEN << BoardVote("FA"), BoardVote("FA"), UserVote >>
                ELSE << BoardVote("FA"), BoardVote("FA"), BoardVote("FA"), UserVote >> ]

TalkPage(v) ==
    [ exists |-> "talk.missing" \notin v,
      redirect |-> "talk.redirect" \in v,
      lines |-> IF "talk.missing" \in v THEN << >>
                ELSE IF "talk.ahh" \in v
                THEN << L("talkheader"), LS("status", "GA"), L("ahh"), LSN("ahm", "Success", 11),
                        LSN("ahm", "GA", 12), LS("ahf", "GA"), L("other") >>
                ELSE IF "talk.noahf" \in v
                THEN << L("talkheader"), L("ahh"), LSN("ahm", "Success", 11), L("other") >>
                ELSE IF "talk.bare" \in v THEN << L("other") >>
                ELSE << L("talkheader"), L("other") >> ]

HistoryPage(v) ==
    [ exists |-> "history.missing" \notin v,
      lines |-> IF "history.missing" \in v THEN << >>
                ELSE IF "history.noend" \in v THEN << L("other"), LSN("row", "Success", 1) >>
                ELSE << L("other"), LSN("row", "Success", 1), L("end") >> ]

ListingPages(v) ==
    [ s \in ListedStatuses |->
        IF s # "ga" THEN [ exists |-> TRUE, lines |-> << L("other") >> ]
        ELSE [ exists |-> "listing.missing" \notin v,
               lines |-> IF "listing.missing" \in v THEN << >>
                         ELSE IF "listing.multi" \in v THEN << L("other"), L("multi") >>
                         ELSE << L("other"), L("entry"), LN("other", 1) >> ] ]

UserTalkPage(v) ==
    [ exists |-> "usertalk.missing" \notin v,
      lines |-> IF "usertalk.missing" \in v THEN << >> ELSE << L("other") >> ]

Wiki(v) ==
    [ parent |-> ParentPage(v), article |-> ArticlePage(v),
      archcat |-> [exists |-> "archcat.exists" \in v],
      nom |-> NomPage(v), talk |-> TalkPage(v), history |-> HistoryPage(v),
      listing |-> ListingPages(v), usertalk |-> UserTalkPage(v) ]

NoResult == [completed |-> FALSE, has_result |-> FALSE, message |-> NoErr]

NoSaved == [x \in {} |-> 0]

InitRun ==
    /\ pc = "recv"
    /\ result = NoResult
    /\ loc = NoLocals
    /\ writes = << >>
    /\ saved = NoSaved
    /\ runs = << >>
    /\ iofails = 0

Init ==
    /\ \E v \in DevSets(MaxDeviations) :
        /\ Compatible(v)
        /\ cmd = Command(v)
        /\ author = Author(v)
        /\ env = Env(v)
        /\ docs = Wiki(v)
        /\ docs0 = Wiki(v)
    /\ runstart = docs
    /\ InitRun

----------------------------------------------------------------------------
(* The handler: JocastaBot.handle_archive_command, process_archive_command, *)
(* Archiver.archive_process and archive_process_after_check.                *)

\* a put of the wiki client either succeeds or raises with nothing written
IOChoices(step) ==
    {"ok"} \cup (IF iofails < MaxIOFailures
                 THEN {"raise"} \cup (IF step = "nompage" THEN {"raise2"} ELSE {})
                 ELSE {})

RunRecord(c, completed, step, e) ==
    [cmd |-> c, completed |-> completed, step |-> step, err |-> e]

\* a handler that restores the wiki of the start of the run when a step raises
AfterFailure_rollback(d, d_start) == d_start

\* the wiki after a step that raised: what the step had put stays put
AfterFailure(d, d_start) == d

RECURSIVE SaveAll(_, _, _)
SaveAll(sv, w, d) ==
    IF w = << >> THEN sv
    ELSE SaveAll((Head(w) :> d[Head(w)]) @@ sv, Tail(w), d)

Finish(step, r, has_result) ==
    /\ writes' = writes \o r.w
    /\ saved' = SaveAll(saved, r.w, r.d)
    /\ loc' = r.l
    /\ iofails' = IF r.err.kind = "IOError" THEN iofails + 1 ELSE iofails
    /\ IF r.err = NoErr
       THEN /\ docs' = r.d
            /\ pc' = NextStep(step)
            /\ IF NextStep(step) = "done"
               THEN /\ result' = [completed |-> TRUE, has_result |-> TRUE, message |-> NoErr]
                    /\ runs' = Append(runs, RunRecord(cmd, TRUE, "", NoErr))
               ELSE UNCHANGED <<result, runs>>
       ELSE /\ docs' = AfterFailure(r.d, runstart)
            /\ pc' = "failed"
            /\ result' = [completed |-> FALSE, has_result |-> has_result, message |-> r.err]
            /\ runs' = Append(runs, RunRecord(cmd, FALSE, step, r.err))
    /\ UNCHANGED <<cmd, author, env, runstart, docs0>>

DoStep(step, io) ==
    /\ pc = step
    /\ Finish(step, StepOp(step, docs, cmd, loc, env, io), TRUE)

HandleArchiveCommand ==
    /\ pc = "recv"
    /\ LET a == should_accept(author, cmd) IN
        /\ pc' = IF a.accept THEN "pre" ELSE "rejected"
        /\ cmd' = IF a.accept /\ a.bypass THEN [cmd EXCEPT !.bypass = TRUE] ELSE cmd
    /\ runstart' = docs
    /\ writes' = << >>
    /\ saved' = NoSaved
    /\ loc' = NoLocals
    /\ UNCHANGED <<author, env, docs, result, runs, iofails, docs0>>

GetPageAndNom ==
    /\ pc = "pre"
    /\ LET e == get_page_and_nom(docs, cmd, env)
       IN  Finish("pre", StepResult(docs, e, << >>, loc), IsArchiveException(e))

CheckRequesterAndRedirects ==
    /\ pc = "check"
    /\ DoStep("check", "ok")

Detach == \E io \in IOChoices("detach") : DoStep("detach", io)

EditTargetArticle == \E io \in IOChoices("article") : DoStep("article", io)

CalculateRevisions ==
    /\ pc = "revisions"
    /\ DoStep("revisions", "ok")

ArchiveNominationPage == \E io \in IOChoices("nompage") : DoStep("nompage", io)

UpdateTalkPage == \E io \in IOChoices("talk") : DoStep("talk", io)

UpdateNominationHistory == \E io \in IOChoices("history") : DoStep("history", io)

RemoveFromPreviousStatusPage == \E io \in IOChoices("former") : DoStep("former", io)

LeaveTalkPageMessage == \E io \in IOChoices("notify") : DoStep("notify", io)

\* the operator sends the same command again, with or without "retry"
Reissue ==
    /\ pc \in {"done", "failed"}
    /\ Len(runs) < MaxRuns
    /\ \E retry \in BOOLEAN : cmd' = [cmd EXCEPT !.retry = retry, !.bypass = FALSE]
    /\ pc' = "recv"
    /\ UNCHANGED <<author, env, docs, result, loc, writes, saved, runs, iofails, runstart, docs0>>

Next ==
    \/ HandleArchiveCommand
    \/ GetPageAndNom
    \/ CheckRequesterAndRedirects
    \/ Detach
    \/ EditTargetArticle
    \/ CalculateRevisions
    \/ ArchiveNominationPage
    \/ UpdateTalkPage
    \/ UpdateNominationHistory
    \/ RemoveFromPreviousStatusPage
    \/ LeaveTalkPageMessage
    \/ Reissue

Spec == Init /\ [][Next]_vars

----------------------------------------------------------------------------
(* A run that never fails: Archiver.archive_process with every put of the   *)
(* wiki client succeeding, from the preconditions to the last step.         *)

RECURSIVE run_from(_, _, _, _, _)
run_from(step, d, c, l, e) ==
    IF step = "done" THEN [d |-> d, completed |-> TRUE]
    ELSE LET r == StepOp(step, d, c, l, e, "ok")
         IN  IF r.err # NoErr THEN [d |-> r.d, completed |-> FALSE]
             ELSE run_from(NextStep(step), r.d, c, r.l, e)

archive_process(d, c, e) ==
    IF get_page_and_nom(d, c, e) # NoErr THEN [d |-> d, completed |-> FALSE]
    ELSE run_from("check", d, c, NoLocals, e)

----------------------------------------------------------------------------
(* Properties of the pipeline, stated over the run in progress: runstart is *)
(* the wiki when the command was accepted, writes the documents the run has *)
(* put so far, saved what each put wrote, runs the runs that are over.      *)

LastRun == runs[Len(runs)]

RunOver == pc \in {"done", "failed"}

\* the run has left the intake and the first precondition check
InPipeline == pc \notin {"recv", "rejected", "pre"}

PipelineStep ==
    \/ GetPageAndNom
    \/ CheckRequesterAndRedirects
    \/ Detach
    \/ EditTargetArticle
    \/ CalculateRevisions
    \/ ArchiveNominationPage
    \/ UpdateTalkPage
    \/ UpdateNominationHistory
    \/ RemoveFromPreviousStatusPage
    \/ LeaveTalkPageMessage

\* the revision the pipeline's edit of the target article creates
CompletedId == NextRevId(docs0.article.revs)

ArchiveMarkers(d) == CountKind(d.nom.lines, "archive")

HistoryRows(d) == CountKind(d.history.lines, "row") - CountKind(docs0.history.lines, "row")

TalkEntries(d) ==
    Cardinality({i \in DOMAIN d.talk.lines :
                    d.talk.lines[i].k = "ahm" /\ d.talk.lines[i].n = CompletedId})

\* the second run, of the command of a first run that completed, with retry
Replay ==
    /\ Len(runs) >= 1
    /\ runs[1].completed
    /\ cmd.retry
    /\ \/ Len(runs) = 1 /\ pc \notin {"done", "failed"}
       \/ Len(runs) = 2 /\ RunOver

C2_RetryConvergence ==
    (/\ Len(runs) = 2
     /\ pc = "done"
     /\ ~runs[1].completed
     /\ runs[1].step \notin {"pre", "check"}
     /\ runs[2].cmd = [runs[1].cmd EXCEPT !.retry = TRUE]
     /\ archive_process(docs0, runs[1].cmd, env).completed)
    => docs = archive_process(docs0, runs[1].cmd, env).d


\* the approval and vote gate refuses the nomination the run started with
GateMessage == check_approval_and_fields(runstart.nom, env.nom_data[cmd.nom_type], cmd.retry, env)

GateRejects ==
    /\ cmd.success
    /\ runstart.article.exists
    /\ runstart.nom.exists
    /\ ~runstart.nom.redirect
    /\ GateMessage # NoErr

\* C3: when the gate rejects a successful command the run ends there: no
\* document differs from what it was when the run started, the run has put
\* nothing, its result has completed = false and the gate's message as it
\* was raised, and no step of the pipeline can be taken; only the operator
\* sending the command again starts another run.
C3_GateRejection ==
    (GateRejects /\ InPipeline) =>
        /\ pc = "failed"
        /\ LastRun.step = "pre"
        /\ docs = runstart
        /\ writes = << >>
        /\ result = [completed |-> FALSE, has_result |-> TRUE, message |-> GateMessage]
        /\ ~ENABLED PipelineStep

C3_Witness ==
    /\ GateRejects
    /\ pc = "failed"
    /\ GateMessage.kind = "VoteDeficit"
    /\ runstart.nom.approved = "leak_fix"

\* the target article or the nomination subpage is missing, or one of the
\* two or the talk page is a redirect
PreconditionFails(d) ==
    \/ ~d.article.exists
    \/ ~d.nom.exists
    \/ d.article.redirect
    \/ d.nom.redirect
    \/ d.talk.redirect

RunFailedWithoutWrites ==
    /\ pc = "failed"
    /\ LastRun.step \in {"pre", "check"}
    /\ ~result.completed
    /\ writes = << >>
    /\ docs = runstart

\* C4 as the specification states it: a run whose target article, nomination
\* subpage or talk page is missing or a redirect fails without a write.
C4_AsStated ==
    ((PreconditionFails(runstart) \/ ~runstart.talk.exists) /\ InPipeline /\ pc # "check")
        => RunFailedWithoutWrites

\* C4: a run whose target article or nomination subpage is missing, or
\* whose target article, nomination subpage or talk page is a redirect,
\* fails before the detach step with completed = false and without a write.
C4_Preconditions ==
    (PreconditionFails(runstart) /\ InPipeline /\ pc # "check") => RunFailedWithoutWrites

C4_Witness ==
    /\ runstart.talk.redirect
    /\ runstart.article.exists
    /\ ~runstart.article.redirect
    /\ pc = "failed"
    /\ LastRun.err = ErrN("RedirectPage", 3, 0, 0)

\* the documents in the order the specification has them written, and the
\* steps that write them
WriteOrder == << "parent", "article", "archcat", "nom", "talk", "history", "listing", "usertalk" >>

StepOrder == << "detach", "article", "revisions", "nompage", "talk", "history", "former", "notify", "done" >>

WritingStep ==
    [ parent |-> "detach", article |-> "article", archcat |-> "nompage", nom |-> "nompage",
      talk |-> "talk", history |-> "history", listing |-> "former", usertalk |-> "notify" ]

Position(seq, x) == CHOOSE i \in DOMAIN seq : seq[i] = x

\* C5: in one run the documents are put in the order parent index page,
\* target article, nomination subpage (with its archive category), talk
\* page, history table, former-status listing, nominator's talk page, each
\* at most once, and every document put so far belongs to a step before the
\* one the run is at.
C5_WriteOrder ==
    /\ \A i, j \in DOMAIN writes :
        i < j => Position(WriteOrder, writes[i]) < Position(WriteOrder, writes[j])
    /\ pc \in {StepOrder[i] : i \in DOMAIN StepOrder} =>
        \A i \in DOMAIN writes :
            Position(StepOrder, WritingStep[writes[i]]) < Position(StepOrder, pc)

C5_Witness ==
    /\ pc = "done"
    /\ writes = << "parent", "article", "archcat", "nom", "talk", "history", "listing", "usertalk" >>

\* C6: when a run has failed, every document it put has the content that
\* put wrote, every other document is as it was when the run started, the
\* result has completed = false, and no step of the pipeline can be taken.
C6_NoRollback ==
    pc = "failed" =>
        /\ \A x \in DOMAIN docs :
            docs[x] = IF x \in DOMAIN saved THEN saved[x] ELSE runstart[x]
        /\ \A i \in DOMAIN writes : writes[i] \in DOMAIN saved
        /\ ~result.completed
        /\ ~LastRun.completed
        /\ ~ENABLED PipelineStep

C6_Witness ==
    /\ pc = "failed"
    /\ LastRun.step = "history"
    /\ writes = << "parent", "article", "archcat", "nom", "talk" >>
    /\ docs.talk # runstart.talk
    /\ docs.nom # runstart.nom

\* the user who added the nomination marker is not the requester
RequesterMismatch ==
    LET nom_revision == calculate_nominated_revision(runstart.article.revs, cmd.nom_type)
    IN  /\ nom_revision # NoRevision
        /\ are_users_different(nom_revision.user, cmd.requested_by)

\* C7: a run of a command that is not successful and has no bypass, whose
\* requester is not the user who added the nomination marker, fails with
\* WrongRequester without a write; no run of a successful command or of a
\* command with bypass fails with WrongRequester.
C7_RequesterCheck ==
    /\ (/\ InPipeline /\ pc # "check"
        /\ runstart.article.exists /\ runstart.nom.exists
        /\ ~cmd.success /\ ~cmd.bypass /\ RequesterMismatch)
        => (pc = "failed" /\ LastRun.err.kind = "WrongRequester" /\ writes = << >> /\ docs = runstart)
    /\ \A i \in DOMAIN runs :
        runs[i].err.kind = "WrongRequester" => (~runs[i].cmd.success /\ ~runs[i].cmd.bypass)

C7_Witness ==
    /\ pc = "failed"
    /\ LastRun.err.kind = "WrongRequester"
    /\ ~cmd.success
    /\ ~cmd.bypass


----------------------------------------------------------------------------
(* The detach step over every parent index page of up to MaxParentLen       *)
(* lines.  add_subpage_to_parent adds the transclusion only to a page whose *)
(* text does not hold it, so a page holds it on at most one line.           *)

ParentLines ==
    { L("trans"), LS("trans", "pad"), L("embed"), LN("other", 1), LN("other", 2),
      L("blank"), LS("blank", "ws") }

RECURSIVE SeqsUpTo(_, _)
SeqsUpTo(S, n) ==
    IF n = 0 THEN { << >> }
    ELSE LET T == SeqsUpTo(S, n - 1) IN T \cup { Append(t, x) : t \in T, x \in S }

ParentPages ==
    { p \in SeqsUpTo(ParentLines, MaxParentLen) :
        Cardinality({i \in DOMAIN p : p[i].k \in {"trans", "embed"}}) <= 1 }

InitDetach ==
    /\ \E p \in ParentPages, retry \in BOOLEAN, w \in BOOLEAN :
        /\ cmd = [Command(IF w THEN {"withdrawn"} ELSE {}) EXCEPT !.retry = retry]
        /\ docs = [Wiki({}) EXCEPT !.parent.lines = p]
    /\ author = Author({})
    /\ env = Env({})
    /\ docs0 = docs
    /\ runstart = docs
    /\ InitRun

NextDetach ==
    \/ HandleArchiveCommand
    \/ GetPageAndNom
    \/ CheckRequesterAndRedirects
    \/ Detach

SpecDetach == InitDetach /\ [][NextDetach]_vars

\* the detach step of the run is over
DetachOver == pc = "article" \/ (pc = "failed" /\ LastRun.step = "detach")

\* a line of the page is the nomination's transclusion
HasTransclusionLine(lines) == \E i \in DOMAIN lines : lines[i].k = "trans"

OtherLines(lines) == SelectSeq(lines, LAMBDA line : line.k \notin {"trans", "blank"})

----------------------------------------------------------------------------
(* The approval and vote gate over nomination subpages with up to MaxVotes  *)
(* lines in the voting area, of the three nomination types.                 *)

VoteKinds(t) ==
    << BoardVote(t), UserVote,
       VoteLine("support", TRUE, "", TRUE, FALSE),
       VoteLine("support", TRUE, "", FALSE, TRUE),
       VoteLine("support", TRUE, "", FALSE, FALSE),
       VoteLine("support", FALSE, NomData[t].template, TRUE, TRUE),
       VoteLine("support", TRUE, "inq", TRUE, TRUE),
       VoteLine("object", TRUE, NomData[t].template, TRUE, TRUE) >>

\* the voting areas of up to n lines, the kinds of line in one order
RECURSIVE VoteSeqs(_, _, _)
VoteSeqs(kinds, from, n) ==
    IF n = 0 THEN { << >> }
    ELSE { << >> } \cup
         UNION { { << kinds[i] >> \o s : s \in VoteSeqs(kinds, i, n - 1) } : i \in from..Len(kinds) }

\* nomLink, nomDate, approved
FrontFields ==
    { << TRUE, TRUE, "clean" >>, << TRUE, TRUE, "leak_fix" >>, << TRUE, TRUE, "leak_stuck" >>,
      << TRUE, TRUE, "none" >>, << FALSE, TRUE, "clean" >>, << TRUE, FALSE, "clean" >> }

AgeHours == { 30, 100, 165, 166, 200 }

InitGate ==
    /\ \E t \in {"FA", "GA", "CA"}, retry \in BOOLEAN, f \in FrontFields, a \in AgeHours,
          incat \in BOOLEAN :
        \E vs \in VoteSeqs(VoteKinds(t), 1, MaxVotes) :
            /\ cmd = [Command({}) EXCEPT !.nom_type = t, !.retry = retry]
            /\ docs = [Wiki({}) EXCEPT !.nom.nomLink = f[1], !.nom.nomDate = f[2],
                                       !.nom.approved = f[3], !.nom.ageHours = a,
                                       !.nom.inVotesCat = incat, !.nom.votes = vs]
    /\ author = Author({})
    /\ env = Env({})
    /\ docs0 = docs
    /\ runstart = docs
    /\ InitRun

NextGate ==
    \/ HandleArchiveCommand
    \/ GetPageAndNom

SpecGate == InitGate /\ [][NextGate]_vars

\* what the gate reads on the nomination subpage the run started with
SupportLines == SelectSeq(runstart.nom.votes, LAMBDA v : v.sec = "support")

BoardVotes ==
    Cardinality({i \in DOMAIN SupportLines :
                    SupportLines[i].tpl = env.nom_data[cmd.nom_type].template})

TotalVotes == Cardinality({i \in DOMAIN SupportLines : SupportLines[i].hash})

ReviewerOrgVotes ==
    IF cmd.nom_type = "FA" THEN 0
    ELSE Cardinality({i \in DOMAIN SupportLines : SupportLines[i].tpl = "inq"})

\* votes of users who are not on the board: numbered lines without its template
UserVotes ==
    Cardinality({i \in DOMAIN SupportLines :
                    /\ SupportLines[i].hash
                    /\ SupportLines[i].tpl # env.nom_data[cmd.nom_type].template})

\* every board template of the support section is on a numbered vote line
BoardVotesNumbered ==
    \A i \in DOMAIN SupportLines :
        SupportLines[i].tpl = env.nom_data[cmd.nom_type].template => SupportLines[i].hash

ElapsedHours == runstart.nom.ageHours + env.timezone_offset + 2

\* checks 1 to 6 of the gate pass
FrontChecksPass ==
    /\ cmd.success
    /\ runstart.article.exists /\ runstart.nom.exists /\ ~runstart.nom.redirect
    /\ runstart.nom.nomLink
    /\ runstart.nom.nomDate
    /\ runstart.nom.approved \in {"clean", "leak_fix"}
    /\ ElapsedHours >= 2 * 24
    /\ runstart.nom.inVotesCat \/ cmd.retry

\* the gate decides on the vote counts
VoteDecision ==
    /\ FrontChecksPass
    /\ runstart.nom.inVotesCat
    /\ ElapsedHours < 7 * 24

VoteErrors == {"VoteDeficit", "VoteDeficitGAN"}

\* C9: when the gate decides on the votes of a nomination under 7 days old
\* without reviewer-org votes, 3 board votes pass whatever the total, 2
\* board votes with 4 votes in total pass, and 2 board votes with 3 votes
\* in total fail the run with the vote-deficit error that names 2 board
\* votes and 1 user vote.
C9_DecisionTable ==
    (InPipeline /\ VoteDecision /\ ReviewerOrgVotes = 0) =>
        /\ BoardVotes = 3 => result.message.kind \notin VoteErrors
        /\ (BoardVotes = 2 /\ TotalVotes = 4) => result.message.kind \notin VoteErrors
        /\ (BoardVotes = 2 /\ TotalVotes = 3 /\ BoardVotesNumbered) =>
            /\ pc = "failed"
            /\ UserVotes = 1
            /\ result.message = ErrN("VoteDeficit", 2, 1, 0)

C9_Witness ==
    /\ InPipeline /\ VoteDecision /\ ReviewerOrgVotes = 0
    /\ BoardVotes = 2 /\ TotalVotes = 3 /\ BoardVotesNumbered
    /\ cmd.nom_type = "FA"
    /\ result.message = ErrN("VoteDeficit", 2, 1, 0)

\* C10: a run whose nomination passes checks 1 to 6 and is at least 7 days
\* old passes the gate, whatever its votes and the fields of its vote lines.
C10_GracePeriod ==
    (InPipeline /\ FrontChecksPass /\ ElapsedHours >= 7 * 24) =>
        (pc = "check" /\ result = NoResult)

C10_Witness ==
    /\ InPipeline /\ FrontChecksPass
    /\ ElapsedHours = 7 * 24
    /\ runstart.nom.inVotesCat
    /\ BoardVotes = 0
    /\ \E i \in DOMAIN SupportLines : ~SupportLines[i].user
    /\ pc = "check"


----------------------------------------------------------------------------
(* The age check of the gate over every age of the nomination subpage up to *)
(* MaxAgeHours hours and the configured timezone offsets.                   *)

TimezoneOffsets == { -5, 0, 3 }

InitAge ==
    /\ \E a \in 0..MaxAgeHours, tz \in TimezoneOffsets, retry \in BOOLEAN, f \in FrontFields,
          incat \in BOOLEAN :
        /\ cmd = [Command({}) EXCEPT !.retry = retry]
        /\ env = [Env({}) EXCEPT !.timezone_offset = tz]
        /\ docs = [Wiki({}) EXCEPT !.nom.nomLink = f[1], !.nom.nomDate = f[2],
                                   !.nom.approved = f[3], !.nom.ageHours = a,
                                   !.nom.inVotesCat = incat]
    /\ author = Author({})
    /\ docs0 = docs
    /\ runstart = docs
    /\ InitRun

SpecAge == InitAge /\ [][NextGate]_vars

\* checks 1 to 4 of the gate pass, so the age of the page is looked at
AgeChecked ==
    /\ cmd.success
    /\ runstart.article.exists /\ runstart.nom.exists /\ ~runstart.nom.redirect
    /\ runstart.nom.nomLink
    /\ runstart.nom.nomDate
    /\ runstart.nom.approved \in {"clean", "leak_fix"}

\* hours from the first revision to the current time shifted by the offset
ShiftedHours == runstart.nom.ageHours + env.timezone_offset

\* C11 as the specification states it: the run is refused with TooYoung
\* exactly when the current time shifted by the timezone offset is less than
\* 48 hours after the first revision, and the error names the whole days of
\* that interval.
C11_AsStated ==
    (InPipeline /\ AgeChecked) =>
        /\ result.message.kind = "TooYoung" <=> ShiftedHours < 2 * 24
        /\ result.message.kind = "TooYoung" =>
            result.message = ErrN("TooYoung", ShiftedHours \div 24, 0, 0)

\* C11: the run is refused with TooYoung exactly when the current time
\* shifted by the timezone offset plus 2 hours is less than 48 hours after
\* the first revision, and the error names the whole days of that interval.
C11_TooYoung ==
    (InPipeline /\ AgeChecked) =>
        /\ result.message.kind = "TooYoung" <=> ElapsedHours < 2 * 24
        /\ result.message.kind = "TooYoung" =>
            /\ pc = "failed"
            /\ result.message = ErrN("TooYoung", ElapsedHours \div 24, 0, 0)

C11_Witness ==
    /\ InPipeline /\ AgeChecked
    /\ runstart.nom.ageHours = 46
    /\ env.timezone_offset = -5
    /\ pc = "failed"
    /\ result.message = ErrN("TooYoung", 1, 0, 0)


\* the outcome of the gate for the page of the run had it been a member of
\* the sufficient-votes category
JudgedInCategory ==
    check_approval_and_fields([runstart.nom EXCEPT !.inVotesCat = TRUE],
                              env.nom_data[cmd.nom_type], cmd.retry, env)

RetryOutsideCategory ==
    /\ cmd.success /\ cmd.retry
    /\ runstart.article.exists /\ runstart.nom.exists /\ ~runstart.nom.redirect
    /\ ~runstart.nom.inVotesCat

\* C12: with retry set, a page that is not in the sufficient-votes category
\* is judged by the remaining checks exactly as a page in the category: the
\* run passes the gate when that page would pass it and fails with the same
\* error when it would fail.
C12_RetrySkipsOnlyCategory ==
    (InPipeline /\ RetryOutsideCategory) =>
        IF JudgedInCategory = NoErr
        THEN pc = "check" /\ result = NoResult
        ELSE pc = "failed" /\ result.message = JudgedInCategory

\* the numbered lines of the support section without a user link, and those
\* without a timestamp
MissingUserLines ==
    Cardinality({ i \in DOMAIN SupportLines : SupportLines[i].hash /\ ~SupportLines[i].user })

MissingDateLines ==
    Cardinality({ i \in DOMAIN SupportLines : SupportLines[i].hash /\ ~SupportLines[i].date })

\* C13: when the gate decides on the vote counts and the counts pass, a
\* support vote line without a user link or without a timestamp fails the
\* run; the error names the number of lines without a timestamp and the
\* number of lines without a user link, each counted on its own, so a line
\* without both is counted in both.
C13_VoteFields ==
    (InPipeline /\ VoteDecision /\ result.message.kind \notin VoteErrors) =>
        IF MissingUserLines = 0 /\ MissingDateLines = 0
        THEN pc = "check" /\ result = NoResult
        ELSE /\ pc = "failed"
             /\ result.message =
                    IF MissingDateLines > 0 /\ MissingUserLines > 0
                    THEN ErrN("MissingDatesAndUsers", MissingDateLines, MissingUserLines, 0)
                    ELSE IF MissingDateLines > 0
                    THEN ErrN("MissingDates", MissingDateLines, 0, 0)
                    ELSE ErrN("MissingUsers", MissingUserLines, 0, 0)


----------------------------------------------------------------------------
(* The talk-page merge on its own, for each of its callers: the archiver's  *)
(* update_talk_page (pc = "talk"), the reviewer's update_talk_page for a    *)
(* review that is passed or put on probation (pc = "review") and its        *)
(* update_talk_page_with_removal (pc = "removal").  cmd.nom_type and        *)
(* cmd.success are the caller's nom_type and successful, loc.nomi and       *)
(* loc.comp the revisions of the entry.  Every application of a caller is   *)
(* recorded in runs; runstart is the wiki before the last application and   *)
(* writes what it put.                                                      *)

build_history_text_for_removal(nom_type, revision) ==
    << LSN("ahm", "F" \o nom_type, revision.id), LS("ahf", "F" \o nom_type) >>

Reviewer_update_talk_page(d, nom_type, successful, started, completed, l, io) ==
    LET res == IF successful THEN "Kept" ELSE "Probation"
        history_text == build_history_text(nom_type, res, started, completed)
        b == build_talk_page(d.talk, nom_type, history_text, successful, << >>)
    IN  IF b.err # NoErr THEN StepResult(d, b.err, <<>>, l)
        ELSE IF io # "ok" THEN StepResult(d, Err("IOError"), <<>>, l)
        ELSE StepResult(Put(d, "talk", [d.talk EXCEPT !.exists = TRUE, !.lines = b.new_text]),
                        NoErr, <<"talk">>, l)

update_talk_page_with_removal(d, nom_type, revision, l, io) ==
    LET history_text == build_history_text_for_removal(nom_type, revision)
        b == build_talk_page(d.talk, nom_type, history_text, FALSE, << >>)
    IN  IF b.err # NoErr THEN StepResult(d, b.err, <<>>, l)
        ELSE IF io # "ok" THEN StepResult(d, Err("IOError"), <<>>, l)
        ELSE StepResult(Put(d, "talk", [d.talk EXCEPT !.exists = TRUE, !.lines = b.new_text]),
                        NoErr, <<"talk">>, l)

\* the lines a talk page is made of; a page has at most one header banner,
\* one history wrapper and one footer, as every page the merge writes from
\* a page without them has
TalkLines ==
    { L("talkheader"), LS("status", "GA"), L("ahh"), LSN("ahm", "GA", 12), LS("ahf", "GA"),
      L("other"), LN("other", 1) }

TalkPages ==
    { p \in SeqsUpTo(TalkLines, MaxTalkLen) :
        \A k \in {"talkheader", "ahh", "ahf"} : CountKind(p, k) <= 1 }

TalkCallers == {"talk", "review", "removal"}

InitTalk ==
    /\ pc \in TalkCallers
    /\ \E t \in {"FA", "GA"}, res \in {{}, {"unsuccessful"}, {"withdrawn"}}, missing \in BOOLEAN,
          p \in TalkPages, projects \in {<< >>, << "", "wp" >>} :
        /\ pc # "talk" => res # {"withdrawn"} /\ projects = << >>
        /\ pc = "removal" => res = {"unsuccessful"}
        /\ missing => p = << >>
        /\ cmd = [Command(res) EXCEPT !.nom_type = t]
        /\ docs = [Wiki({}) EXCEPT !.talk.exists = ~missing, !.talk.lines = p,
                                   !.nom.projects = projects]
    /\ author = Author({})
    /\ env = Env({})
    /\ docs0 = docs
    /\ runstart = docs
    /\ result = NoResult
    /\ loc = [NoLocals EXCEPT !.nomi = Rev(3, Nominator, "", ""), !.comp = Rev(21, Bot, "", "")]
    /\ writes = << >>
    /\ saved = NoSaved
    /\ runs = << >>
    /\ iofails = 0

Apply(r) ==
    /\ Len(runs) < MaxRuns
    /\ runstart' = docs
    /\ docs' = r.d
    /\ writes' = r.w
    /\ runs' = Append(runs, RunRecord(cmd, r.err = NoErr, pc, r.err))
    /\ iofails' = IF r.err.kind = "IOError" THEN iofails + 1 ELSE iofails
    /\ UNCHANGED <<cmd, author, env, pc, result, loc, saved, docs0>>

ArchiverUpdateTalkPage ==
    /\ pc = "talk"
    /\ \E io \in IOChoices("talk") : Apply(update_talk_page(docs, cmd, loc, io))

ReviewerUpdateTalkPage ==
    /\ pc = "review"
    /\ \E io \in IOChoices("talk") :
        Apply(Reviewer_update_talk_page(docs, cmd.nom_type, cmd.success, loc.nomi, loc.comp, loc, io))

ReviewerUpdateTalkPageWithRemoval ==
    /\ pc = "removal"
    /\ \E io \in IOChoices("talk") :
        Apply(update_talk_page_with_removal(docs, cmd.nom_type, loc.comp, loc, io))

NextTalk ==
    \/ ArchiverUpdateTalkPage
    \/ ReviewerUpdateTalkPage
    \/ ReviewerUpdateTalkPageWithRemoval

SpecTalk == InitTalk /\ [][NextTalk]_vars


\* the caller has been applied twice and its first application did not raise
AppliedTwice == Len(runs) = 2 /\ runs[1].err = NoErr

\* C14: for every caller of the merge, a second application with the same
\* history entry writes nothing (no put is made, so none can raise) and
\* leaves the talk page as it was after the first application.
C14_MergeIdempotent ==
    AppliedTwice =>
        /\ writes = << >>
        /\ runs[2].err = NoErr
        /\ docs.talk = runstart.talk


\* the history entry the caller merges into the talk page
MergeEntry ==
    IF pc = "removal" THEN build_history_text_for_removal(cmd.nom_type, loc.comp)
    ELSE IF pc = "review"
    THEN build_history_text(cmd.nom_type, IF cmd.success THEN "Kept" ELSE "Probation",
                            loc.nomi, loc.comp)
    ELSE build_history_text(cmd.nom_type, TalkResult(cmd), loc.nomi, loc.comp)

\* the merge is called with successful = true
MergeSuccessful == cmd.success /\ pc # "removal"

StatusBanner == LS("status", cmd.nom_type)

\* the places of text where the lines of entry stand one after the other
Places(entry, text) ==
    { i \in 1..Len(text) : /\ i + Len(entry) - 1 <= Len(text)
                           /\ SubSeq(text, i, i + Len(entry) - 1) = entry }

\* the entries of text made for the revision the caller's entry is made for
EntriesIn(text) == Cardinality({ i \in DOMAIN text : text[i].k = "ahm" /\ text[i].n = loc.comp.id })

\* the caller has been applied once, to a page that exists
AppliedOnce == Len(runs) = 1 /\ runstart.talk.exists

\* C15: applied to a talk page with the history wrapper, the merge either
\* raises, or returns a text that holds the new entry exactly once, where
\* the footer is, with the new status banner right before the wrapper when
\* successful and no other status banner left; it never returns a text
\* without the entry, a page without footer included.
C15_WrapperMerge ==
    (AppliedOnce /\ HasKind(runstart.talk.lines, "ahh") /\ runs[1].err.kind # "IOError") =>
        \/ runs[1].err # NoErr /\ writes = << >>
        \/ /\ runs[1].err = NoErr
           /\ EntriesIn(docs.talk.lines) = 1
           /\ Cardinality(Places(MergeEntry, docs.talk.lines)) = 1
           /\ CountKind(docs.talk.lines, "ahf") = 1
           /\ MergeSuccessful =>
                \E i \in DOMAIN docs.talk.lines :
                    /\ docs.talk.lines[i] = StatusBanner
                    /\ i < Len(docs.talk.lines)
                    /\ docs.talk.lines[i + 1].k = "ahh"
           /\ \A i \in DOMAIN docs.talk.lines :
                docs.talk.lines[i].k \in {"status", "former"} =>
                    MergeSuccessful /\ docs.talk.lines[i] = StatusBanner


\* one banner for each related project that has a banner template
ConfiguredBanners ==
    LET with == SelectSeq(runstart.nom.projects, LAMBDA p : p # "")
    IN  [i \in DOMAIN with |-> LS("proj", with[i])]

\* the status banner if successful, the wrapper, the entry and the banners
MergeBlock ==
    (IF MergeSuccessful THEN << StatusBanner >> ELSE << >>)
    \o << L("ahh") >> \o MergeEntry \o ConfiguredBanners

\* C16: applied when the talk page does not exist, a caller that does not
\* raise creates the page, and its text is exactly the header banner, the
\* status banner if successful, the wrapper, the entry and one banner for
\* each related project with a banner template, in this order; only the put
\* can raise.
C16_AbsentPage ==
    (Len(runs) = 1 /\ ~runstart.talk.exists) =>
        /\ runs[1].err.kind \in {"", "IOError"}
        /\ runs[1].err = NoErr =>
            /\ writes = << "talk" >>
            /\ docs.talk.exists
            /\ docs.talk.lines = << L("talkheader") >> \o MergeBlock

C16_Witness ==
    /\ Len(runs) = 1 /\ ~runstart.talk.exists
    /\ pc = "talk" /\ cmd.success /\ cmd.nom_type = "FA"
    /\ runstart.nom.projects = << "", "wp" >>
    /\ docs.talk.exists
    /\ docs.talk.lines = << L("talkheader"), LS("status", "FA"), L("ahh"),
                            LSN("ahm", "Success", 3), LSN("ahm", "FA", 21), LS("ahf", "FA"),
                            LS("proj", "wp") >>

----------------------------------------------------------------------------
(* The objection trees of one section of a discussion page:                 *)
(* extract_actual_objections, identify_overdue_objections and               *)
(* identify_review_objections of jocasta/nominations/objection.py.  A tree  *)
(* is a dict from bullet depth to line; of a line the model keeps s (it     *)
(* starts with its bullets and <s>), note (is_review_note), alldone (it     *)
(* holds "all done" or "all handled") and date, the whole days between the  *)
(* date written in it and now, NoDate when no date is written in it.        *)

NoDate == -1

ObjLine(s, note, alldone, date) == [s |-> s, note |-> note, alldone |-> alldone, date |-> date]

PlainLine(date) == ObjLine(FALSE, FALSE, FALSE, date)

NoLines == [k \in {} |-> PlainLine(NoDate)]

ObjTree(nested, lines) == [nested |-> nested, lines |-> lines]

\* the lines of tree in the order the dict holds them: the depths upwards,
\* last a line the "all done" marker has copied into the tree
RECURSIVE KeyOrder(_)
KeyOrder(K) ==
    IF K = {} THEN << >>
    ELSE LET k == CHOOSE x \in K : \A y \in K : x <= y IN << k >> \o KeyOrder(K \ {k})

Max(K) == CHOOSE x \in K : \A y \in K : y <= x

\* ObjectionLine(counter, user, date, content), counter being its key
ObjectionLine(date, content) == [date |-> date, content |-> content]

\* the loop over the lines of one tree
RECURSIVE extract_lines(_, _, _, _, _)
extract_lines(tree, nested, order, j, st) ==
    IF j > Len(order) THEN st
    ELSE LET count == order[j]
             line == tree[count]
             dates == IF line.date # NoDate THEN (count :> line.date) @@ st.tree_dates
                      ELSE st.tree_dates
             struck == IF count = 1 THEN st.struck \/ line.s \/ line.note
                       ELSE IF count = 2 /\ nested /\ ~st.struck THEN line.s \/ line.note
                       ELSE st.struck
             date == IF count \in DOMAIN dates THEN dates[count] ELSE NoDate
         IN  extract_lines(tree, nested, order, j + 1,
                 [ all_done |-> IF line.alldone THEN count ELSE st.all_done,
                   tree_dates |-> dates,
                   struck |-> struck,
                   tree_data |-> (count :> ObjectionLine(date, line)) @@ st.tree_data ])

\* the loop over the trees of the section, last tree first; all_done = 0
\* stands for None and for 0
RECURSIVE extract_trees(_, _, _)
extract_trees(trees, j, st) ==
    IF j > Len(trees) THEN st.results
    ELSE LET tree0 == trees[j].lines IN
        IF DOMAIN tree0 = {} THEN extract_trees(trees, j + 1, st)
        ELSE LET inherit == st.all_done # 0 /\ st.i > 0
                 here == inherit /\ st.all_done \in DOMAIN tree0
                 copy == /\ inherit /\ ~here
                         /\ st.all_done \in DOMAIN trees[st.i].lines
                 tree == IF copy THEN (st.all_done :> trees[st.i].lines[st.all_done]) @@ tree0
                         ELSE tree0
                 order == KeyOrder(DOMAIN tree0) \o (IF copy THEN << st.all_done >> ELSE << >>)
                 r == extract_lines(tree, trees[j].nested, order, 1,
                          [ all_done |-> IF here THEN 0 ELSE st.all_done,
                            tree_dates |-> st.tree_dates,
                            struck |-> FALSE,
                            tree_data |-> NoLines ])
             IN  extract_trees([trees EXCEPT ![j].lines = tree], j + 1,
                     [ all_done |-> r.all_done,
                       tree_dates |-> r.tree_dates,
                       i |-> st.i + 1,
                       results |-> Append(st.results,
                                          [ nested |-> trees[j].nested, struck |-> r.struck,
                                            lines |-> r.tree_data ]) ])

Reverse(s) == [i \in DOMAIN s |-> s[Len(s) + 1 - i]]

extract_actual_objections(section) ==
    extract_trees(Reverse(section), 1,
                  [all_done |-> 0, tree_dates |-> NoLines, i |-> 0, results |-> << >>])

ObjectionResult(addressed, overdue, first_notification, last_date, lines) ==
    [ addressed |-> addressed, overdue |-> overdue, first_notification |-> first_notification,
      last_date |-> last_date, lines |-> lines ]

\* a classification by the depth of the deepest line
addressed_by_depth(counts) == Max(counts) % 2 = 0

\* len(counts) % 2 == 0
addressed(counts) == Cardinality(counts) % 2 = 0

\* a tree that is passed over whatever its struck flag says
IsStruck_root_only(tree_data) == tree_data.struck /\ ~tree_data.nested

IsStruck(tree_data) == tree_data.struck

\* a report from the overdue threshold on
IsDue_overdue(days, nom_data) == days >= nom_data.overdue_days

\* duration.days >= nom_data.notification_days
IsDue(days, nom_data) == days >= nom_data.notification_days

RECURSIVE identify_overdue_objections(_, _, _)
identify_overdue_objections(nom_data, trees, j) ==
    IF j > Len(trees) THEN << >>
    ELSE LET tree_data == trees[j]
             rest == identify_overdue_objections(nom_data, trees, j + 1)
         IN  IF IsStruck(tree_data) THEN rest
             ELSE LET counts == DOMAIN tree_data.lines
                      top == Max(counts)
                      target == tree_data.lines[top]
                      earlier == IF top - 1 \in counts THEN tree_data.lines[top - 1].date ELSE NoDate
                      date == IF target.date # NoDate THEN target.date ELSE earlier
                      lines == [tree_data.lines EXCEPT ![top].date = date]
                  IN  IF date = NoDate THEN rest
                      ELSE IF IsDue(date, nom_data)
                      THEN << ObjectionResult(addressed(counts), date >= nom_data.overdue_days,
                                              date = nom_data.notification_days, date, lines) >>
                           \o rest
                      ELSE rest

RECURSIVE identify_review_objections(_, _)
identify_review_objections(trees, j) ==
    IF j > Len(trees) THEN << >>
    ELSE LET tree_data == trees[j]
             rest == identify_review_objections(trees, j + 1)
         IN  IF IsStruck(tree_data) THEN rest
             ELSE LET counts == DOMAIN tree_data.lines
                      target == tree_data.lines[Max(counts)]
                  IN  << ObjectionResult(addressed(counts), FALSE, FALSE, target.date,
                                         tree_data.lines) >> \o rest

\* the lines of the trees of the section
ObjectionLines ==
    { PlainLine(d) : d \in {NoDate, 6, 7, 40} }
    \cup { ObjLine(TRUE, FALSE, FALSE, 40), ObjLine(FALSE, TRUE, FALSE, 40),
           ObjLine(FALSE, FALSE, TRUE, 7) }

Trees ==
    UNION { { ObjTree(n, f) : n \in BOOLEAN, f \in [K -> ObjectionLines] } :
            K \in (SUBSET (1..MaxDepth)) \ {{}} }

\* the trees that stand after the tree looked at: a blanket "all done" reply
\* at depth 1, 2 or 3, or an answered objection with dates
LaterTrees ==
    { ObjTree(FALSE, (1 :> ObjLine(FALSE, FALSE, TRUE, 7))),
      ObjTree(FALSE, (1 :> PlainLine(40)) @@ (2 :> ObjLine(FALSE, FALSE, TRUE, 7))),
      ObjTree(FALSE, (1 :> PlainLine(40)) @@ (2 :> PlainLine(40))
                     @@ (3 :> ObjLine(FALSE, FALSE, TRUE, 7))),
      ObjTree(FALSE, (1 :> PlainLine(40)) @@ (2 :> PlainLine(6))) }

\* notification_days and overdue_days of the nomination type
DayThresholds ==
    { [notification_days |-> 7, overdue_days |-> 30],
      [notification_days |-> 30, overdue_days |-> 7] }

\* the section starts with the empty tree build_objection_trees emits
\* before the first depth-1 line
InitObjections ==
    /\ pc \in {"nomination", "review"}
    /\ \E t \in Trees, later \in {<< >>} \cup { << l >> : l \in LaterTrees } :
        docs = [section |-> << ObjTree(FALSE, NoLines), t >> \o later]
    /\ env \in DayThresholds
    /\ cmd = Command({})
    /\ author = Author({})
    /\ docs0 = docs
    /\ runstart = docs
    /\ result = NoResult
    /\ loc = [trees |-> << >>]
    /\ writes = << >>
    /\ saved = NoSaved
    /\ runs = << >>
    /\ iofails = 0

ExtractActualObjections ==
    /\ pc \in {"nomination", "review"}
    /\ loc' = [trees |-> extract_actual_objections(docs.section)]
    /\ pc' = pc \o ".identify"
    /\ UNCHANGED <<cmd, author, env, docs, result, writes, saved, runs, iofails, runstart, docs0>>

IdentifyOverdueObjections ==
    /\ pc = "nomination.identify"
    /\ result' = [objections |-> identify_overdue_objections(env, loc.trees, 1)]
    /\ pc' = "reported"
    /\ UNCHANGED <<cmd, author, env, docs, loc, writes, saved, runs, iofails, runstart, docs0>>

IdentifyReviewObjections ==
    /\ pc = "review.identify"
    /\ result' = [objections |-> identify_review_objections(loc.trees, 1)]
    /\ pc' = "reviewed"
    /\ UNCHANGED <<cmd, author, env, docs, loc, writes, saved, runs, iofails, runstart, docs0>>

NextObjections ==
    \/ ExtractActualObjections
    \/ IdentifyOverdueObjections
    \/ IdentifyReviewObjections

SpecObjections == InitObjections /\ [][NextObjections]_vars


\* the trees have been classified
Classified == pc \in {"reported", "reviewed"}

Deepest(lines) == lines[Max(DOMAIN lines)]

\* the lines as they are written on the page
Contents(lines) == [k \in DOMAIN lines |-> lines[k].content]

\* a result has been made for the tree
HasResult(tree_data) ==
    \E i \in DOMAIN result.objections :
        Contents(result.objections[i].lines) = Contents(tree_data.lines)

Dated(lines) == Deepest(lines).content.date # NoDate

DaysAgo(lines) == Deepest(lines).content.date

ResultThresholds ==
    \A i \in DOMAIN result.objections :
        LET r == result.objections[i] IN
        Dated(r.lines) =>
            /\ r.overdue <=> DaysAgo(r.lines) >= env.overdue_days
            /\ r.first_notification <=> DaysAgo(r.lines) = env.notification_days
            /\ r.last_date = DaysAgo(r.lines)

\* C19 as the specification states it: the result of an unstruck tree whose
\* deepest line is dated d days ago has overdue = (d >= overdue_days) and
\* first_notification = (d = notification_days), and every such tree with
\* d >= overdue_days has a result.
C19_AsStated ==
    pc = "reported" =>
        /\ ResultThresholds
        /\ \A j \in DOMAIN loc.trees :
            (/\ ~loc.trees[j].struck
             /\ Dated(loc.trees[j].lines)
             /\ DaysAgo(loc.trees[j].lines) >= env.overdue_days) => HasResult(loc.trees[j])

\* C19: the result of an unstruck tree whose deepest line is dated d days
\* ago has overdue = (d >= overdue_days) and first_notification =
\* (d = notification_days); such a tree has a result exactly when
\* d >= notification_days, so a tree with d >= overdue_days has one
\* whenever notification_days <= overdue_days.
C19_Thresholds ==
    pc = "reported" =>
        /\ ResultThresholds
        /\ \A j \in DOMAIN loc.trees :
            (~loc.trees[j].struck /\ Dated(loc.trees[j].lines)) =>
                /\ HasResult(loc.trees[j])
                    <=> DaysAgo(loc.trees[j].lines) >= env.notification_days
                /\ (/\ env.notification_days <= env.overdue_days
                    /\ DaysAgo(loc.trees[j].lines) >= env.overdue_days) => HasResult(loc.trees[j])

C19_Witness ==
    /\ pc = "reported"
    /\ env.overdue_days = 30
    /\ \E i \in DOMAIN result.objections :
        /\ DOMAIN result.objections[i].lines = {1}
        /\ DaysAgo(result.objections[i].lines) = 40
        /\ result.objections[i].overdue
        /\ ~result.objections[i].first_notification
        /\ ~result.objections[i].addressed

Resolved(line) == line.content.s \/ line.content.note

NoResultForStruck ==
    /\ \A i \in DOMAIN result.objections :
        \E j \in DOMAIN loc.trees :
            /\ ~loc.trees[j].struck
            /\ Contents(result.objections[i].lines) = Contents(loc.trees[j].lines)
    /\ Len(result.objections) <= Cardinality({ j \in DOMAIN loc.trees : ~loc.trees[j].struck })

\* C20 as the specification states it: a tree is struck exactly when its
\* deepest line starts with the strike-through marker or is a review note,
\* and no result is made for a struck tree.
C20_AsStated ==
    Classified =>
        /\ \A j \in DOMAIN loc.trees :
            loc.trees[j].struck <=> Resolved(Deepest(loc.trees[j].lines))
        /\ NoResultForStruck

\* C20: a tree is struck exactly when its depth-1 line, or the depth-2 line
\* of a nested tree, starts with the strike-through marker or is a review
\* note, and no result is made for a struck tree.
C20_Struck ==
    Classified =>
        /\ \A j \in DOMAIN loc.trees :
            LET t == loc.trees[j] IN
            t.struck <=> \/ 1 \in DOMAIN t.lines /\ Resolved(t.lines[1])
                         \/ t.nested /\ 2 \in DOMAIN t.lines /\ Resolved(t.lines[2])
        /\ NoResultForStruck

C20_Witness ==
    /\ Classified
    /\ result.objections = << >>
    /\ \E j \in DOMAIN loc.trees :
        /\ loc.trees[j].struck /\ loc.trees[j].nested
        /\ DOMAIN loc.trees[j].lines = {1, 2, 3}
        /\ ~Resolved(loc.trees[j].lines[1])
        /\ Resolved(loc.trees[j].lines[2])
        /\ ~Resolved(loc.trees[j].lines[3])
        /\ loc.trees[j].lines[3].date = 40


----------------------------------------------------------------------------
(* The state of the wiki after a completed run.                             *)

\* the parent index page transcludes the nomination subpage: the text
\* {{/subpage}} stands on a line of its own or inside a line
Transcludes(d) == \E i \in DOMAIN d.parent.lines : d.parent.lines[i].k \in {"trans", "embed"}

\* the nomination subpage carries the nomination category
InNominationCategory(d) == HasKind(d.nom.lines, "cat")

\* C21: after a run that returns completed = true, a first run or a retry,
\* the parent index page does not transclude the nomination subpage and the
\* subpage does not carry the nomination category.
C21_ArchivedLeavesIndex ==
    (pc = "done" /\ LastRun.completed) =>
        /\ ~Transcludes(docs)
        /\ ~InNominationCategory(docs)


\* the run has changed the nominator's talk page
Notified == docs.usertalk # docs0.usertalk

\* C22: the nominator's talk page is changed only by a run whose command is
\* successful and does not carry the no-message flag and whose nominator
\* has not opted out; when one of the three fails the page is as it was.
C22_NotificationOnlyWhen ==
    Notified => (cmd.success /\ cmd.send_message /\ ~env.optout)


\* the requester holds a review-board role or is the owner of the bot
Privileged == author.role \in {"board", "owner"}

\* the requester is the user who nominated the article
OwnNomination ==
    LET nom_revision == calculate_nominated_revision(docs0.article.revs, cmd.nom_type)
    IN  nom_revision # NoRevision /\ ~are_users_different(nom_revision.user, author.name)

\* the command has been executed: the pipeline has written a page or has
\* returned completed = true
Executed == writes # << >> \/ (pc = "done" /\ LastRun.completed)

\* C25: a successful or unsuccessful archive command is executed only for a
\* requester with a review-board role or the owner of the bot; for any
\* other requester only a withdrawal is executed, and only of a nomination
\* that requester made.
C25_RestrictedToBoard ==
    (Executed /\ ~Privileged) => (cmd.withdrawn /\ ~cmd.success /\ OwnNomination)

----------------------------------------------------------------------------
(* The Discord handlers of JocastaBot: coroutines on one event loop. Each   *)
(* action is the code between two awaits of one handler; the archival       *)
(* pipeline and the Reviewer operations are synchronous and run within one  *)
(* action, with their outcome drawn from the outcomes they can have.        *)

Handlers == {"h1", "h2"}

TIMER == "timer"
EXCLAMATION == "exclamation"
THUMBS_UP == "thumbs_up"

\* the steps inside the try block of the three Reviewer operations
ReviewSteps(op) ==
    CASE op = "pass" -> << "remove_review_template", "calculate_revisions", "archive_review_page",
                           "remove_subpage_from_parent", "update_review_history", "update_talk_page" >>
      [] op = "probation" -> << "change_to_probation", "calculate_revisions",
                                "update_review_history", "update_talk_page" >>
      [] op = "remove" -> << "remove_review_template", "calculate_revisions", "archive_review_page",
                             "remove_subpage_from_parent", "update_review_history_with_removal",
                             "update_talk_page_with_removal" >>

ReviewOps == {"pass", "probation", "remove"}

BotCommands ==
    [op : {"archive"}, success : BOOLEAN, retry : BOOLEAN]
        \cup [op : ReviewOps, success : {TRUE}, retry : {FALSE}]

NoOutcome ==
    [completed |-> FALSE, failed_step |-> "", err_msg |-> FALSE, done |-> << >>,
     reactions |-> {}, sent |-> {}]

Schedule == {"FAN", "GAN", "CAN"}

NextSchedule(s) == CASE s = "FAN" -> "GAN" [] s = "GAN" -> "CAN" [] s = "CAN" -> "FAN"

RankingsThreshold == 10

InitBot ==
    /\ cmd \in [Handlers -> BotCommands]
    /\ author \in [Handlers -> [role : {"board", "user"}]]
    /\ \A t \in Handlers : cmd[t].op \in ReviewOps => author[t].role = "board"
    /\ env \in [failed : {<< >>}, counts : {0}, successful_count : {0, RankingsThreshold - 1},
                queue : {0}, schedule : {"CAN"}, archived : {FALSE}, handled : {0},
                rankings : {0}]
    /\ pc = [t \in Handlers \cup {"check"} |-> IF t = "check" THEN "idle" ELSE "received"]
    /\ result = [t \in Handlers |-> NoOutcome]
    /\ docs = << >>
    /\ docs0 = docs
    /\ runstart = docs
    /\ loc = << >>
    /\ writes = << >>
    /\ saved = NoSaved
    /\ runs = << >>
    /\ iofails = 0

BotUnchanged == UNCHANGED <<cmd, author, docs, loc, writes, saved, runs, iofails, runstart, docs0>>

\* handle_archive_command and handle_*_review_command up to the TIMER reaction
HandleCommand(t) ==
    /\ pc[t] = "received"
    /\ IF cmd[t].op = "archive" /\ ~should_accept(author[t], cmd[t]).accept
       THEN /\ result' = [result EXCEPT ![t].sent = @ \cup {"restricted"}]
            /\ pc' = [pc EXCEPT ![t] = "over"]
       ELSE /\ result' = [result EXCEPT ![t].reactions = @ \cup {TIMER}]
            /\ pc' = [pc EXCEPT ![t] = "process"]
    /\ env' = env
    /\ BotUnchanged

\* process_archive_command: the pipeline runs to completion or stops at an error;
\* on a nomination that is archived already only a retry runs to completion
ProcessArchiveCommand(t) ==
    /\ pc[t] = "process"
    /\ cmd[t].op = "archive"
    /\ \E completed \in BOOLEAN :
        /\ completed => (cmd[t].retry \/ ~env.archived)
        /\ result' = [result EXCEPT ![t].completed = completed,
                                    ![t].failed_step = IF completed THEN "" ELSE "archive_process",
                                    ![t].err_msg = ~completed,
                                    ![t].reactions = @ \ {TIMER}]
        /\ env' = IF completed /\ cmd[t].success
                  THEN [env EXCEPT !.queue = @ + 1, !.archived = TRUE]
                  ELSE [env EXCEPT !.archived = @ \/ completed]
    /\ pc' = [pc EXCEPT ![t] = "outcome"]
    /\ BotUnchanged

\* Reviewer.mark_review_as_complete, mark_article_as_on_probation, mark_article_as_former:
\* determine_pages raises to the handler (f = 0), a failing step inside the try is
\* logged and the status is returned all the same (1 <= f <= number of steps)
MarkReview(t) ==
    /\ pc[t] = "process"
    /\ cmd[t].op \in ReviewOps
    /\ LET steps == ReviewSteps(cmd[t].op) IN
       \E f \in 0 .. Len(steps) + 1 :
        result' = [result EXCEPT
            ![t].completed = (f = Len(steps) + 1),
            ![t].failed_step = IF f = 0 THEN "determine_pages"
                               ELSE IF f <= Len(steps) THEN steps[f] ELSE "",
            ![t].err_msg = (f = 0),
            ![t].done = IF f = 0 THEN << >> ELSE SubSeq(steps, 1, f - 1),
            ![t].reactions = @ \ {TIMER}]
    /\ pc' = [pc EXCEPT ![t] = "outcome"]
    /\ env' = env
    /\ BotUnchanged

\* JocastaBot.update_counts
update_counts(e) == [e EXCEPT !.successful_count = @ + 1, !.counts = @ + 1]

\* list.remove: the first occurrence goes
RemoveFirst(s, x) ==
    LET i == CHOOSE j \in 1 .. Len(s) : s[j] = x /\ \A k \in 1 .. j - 1 : s[k] # x
    IN  SubSeq(s, 1, i - 1) \o SubSeq(s, i + 1, Len(s))

InFailed(e, x) == \E i \in 1 .. Len(e.failed) : e.failed[i] = x

Article == "article"

\* handle_archive_command after the TIMER reaction is removed
ArchiveOutcome(t) ==
    /\ pc[t] = "outcome"
    /\ cmd[t].op = "archive"
    /\ IF ~result[t].completed
       THEN /\ env' = [env EXCEPT !.failed = Append(@, Article)]
            /\ result' = [result EXCEPT ![t].reactions = @ \cup {EXCLAMATION}]
            /\ pc' = [pc EXCEPT ![t] = "respond"]
       ELSE IF ~cmd[t].success
       THEN /\ env' = env
            /\ result' = [result EXCEPT ![t].reactions = @ \cup {THUMBS_UP}]
            /\ pc' = [pc EXCEPT ![t] = "over"]
       ELSE /\ env' = IF cmd[t].retry /\ InFailed(env, Article)
                      THEN [update_counts(env) EXCEPT !.failed = RemoveFirst(@, Article)]
                      ELSE IF ~cmd[t].retry THEN update_counts(env)
                      ELSE env
            /\ result' = [result EXCEPT ![t].sent = @ \cup {"announce"}]
            /\ pc' = [pc EXCEPT ![t] = "followup"]
    /\ BotUnchanged

\* handle_*_review_command after the TIMER reaction is removed
ReviewOutcome(t) ==
    /\ pc[t] = "outcome"
    /\ cmd[t].op \in ReviewOps
    /\ IF result[t].err_msg
       THEN /\ result' = [result EXCEPT ![t].reactions = @ \cup {EXCLAMATION}]
            /\ pc' = [pc EXCEPT ![t] = "respond"]
       ELSE /\ result' = [result EXCEPT ![t].sent = @ \cup {"announce"}]
            /\ pc' = [pc EXCEPT ![t] = "thumbs"]
    /\ env' = env
    /\ BotUnchanged

\* await message.channel.send(response) after the EXCLAMATION reaction
Respond(t) ==
    /\ pc[t] = "respond"
    /\ result' = [result EXCEPT ![t].sent = @ \cup {"error"}]
    /\ pc' = [pc EXCEPT ![t] = IF cmd[t].op = "archive" /\ result[t].completed
                               THEN "rankings" ELSE "over"]
    /\ env' = env
    /\ BotUnchanged

\* await message.add_reaction(THUMBS_UP) after the announcement of a review
Thumbs(t) ==
    /\ pc[t] = "thumbs"
    /\ result' = [result EXCEPT ![t].reactions = @ \cup {THUMBS_UP}]
    /\ pc' = [pc EXCEPT ![t] = "over"]
    /\ env' = env
    /\ BotUnchanged

\* the nominator's row of the current-year rankings page: user_data[user][nom_type] += 1
update_current_year_rankings(n) == n + 1

\* handle_archive_followup and the reactions that report it: the rankings page is
\* put first, the project updates that follow may raise
Followup(t) ==
    /\ pc[t] = "followup"
    /\ \E err \in BOOLEAN, ranked \in BOOLEAN :
        /\ ~err => ranked
        /\ env' = IF ranked THEN [env EXCEPT !.rankings = update_current_year_rankings(@)]
                  ELSE env
        /\ IF err
           THEN /\ result' = [result EXCEPT ![t].reactions = @ \cup {EXCLAMATION},
                                            ![t].failed_step = "followup"]
                /\ pc' = [pc EXCEPT ![t] = "respond"]
           ELSE /\ result' = [result EXCEPT ![t].reactions = @ \cup {THUMBS_UP}]
                /\ pc' = [pc EXCEPT ![t] = "rankings"]
    /\ BotUnchanged

\* the rankings table is rebuilt after ten successful archivals
Rankings(t) ==
    /\ pc[t] = "rankings"
    /\ \E ok \in BOOLEAN :
        env' = IF env.successful_count >= RankingsThreshold /\ ok
               THEN [env EXCEPT !.successful_count = 0] ELSE env
    /\ pc' = [pc EXCEPT ![t] = "over"]
    /\ result' = result
    /\ BotUnchanged

\* scheduled_check_for_objections up to its first await
ScheduledCheck ==
    /\ pc["check"] = "idle"
    /\ \E noon \in BOOLEAN :
        IF env.schedule = "FAN" /\ ~noon
        THEN /\ env' = env
             /\ pc' = pc
        ELSE /\ env' = [env EXCEPT !.schedule = NextSchedule(@)]
             /\ pc' = [pc EXCEPT !["check"] = "checking"]
    /\ result' = result
    /\ BotUnchanged

\* the awaited objection checks return
ScheduledCheckDone ==
    /\ pc["check"] = "checking"
    /\ pc' = [pc EXCEPT !["check"] = "idle"]
    /\ env' = env
    /\ result' = result
    /\ BotUnchanged

NextBot ==
    \/ \E t \in Handlers : HandleCommand(t)
    \/ \E t \in Handlers : ProcessArchiveCommand(t)
    \/ \E t \in Handlers : MarkReview(t)
    \/ \E t \in Handlers : ArchiveOutcome(t)
    \/ \E t \in Handlers : ReviewOutcome(t)
    \/ \E t \in Handlers : Respond(t)
    \/ \E t \in Handlers : Thumbs(t)
    \/ \E t \in Handlers : Followup(t)
    \/ \E t \in Handlers : Rankings(t)
    \/ ScheduledCheck
    \/ ScheduledCheckDone

SpecBot == InitBot /\ [][NextBot]_vars

\* a handler is over and a step of its operation failed
StepFailed(t) == pc[t] = "over" /\ result[t].failed_step # ""

ToldOfFailure(t) == EXCLAMATION \in result[t].reactions \/ "error" \in result[t].sent

AnnouncedAsSuccess(t) == "announce" \in result[t].sent \/ THUMBS_UP \in result[t].reactions

\* C23: whenever a step of an archival or of a review operation (pass, probation,
\* remove status) fails, the requester gets a failure reaction or message, and the
\* operation is never announced as a success
C23_FailureReported ==
    \A t \in Handlers : StepFailed(t) => (ToldOfFailure(t) /\ ~AnnouncedAsSuccess(t))

\* the handler has begun and its last effect has not happened yet
InHandling(t) == pc[t] \notin {"received", "over", "idle"}

\* C24: handlers never interleave: while one command is being handled no other
\* command and no scheduled check is in progress
C24_NoInterleaving ==
    Cardinality({t \in Handlers \cup {"check"} : InHandling(t)}) <= 1

----------------------------------------------------------------------------
(* ArchiveCommand.parse_command. A command string is a sequence of tokens,  *)
(* each token a piece of text the regular expression takes or leaves whole. *)

MaxTailLen == 4

RETRY == "retry "
SUFFIX == " (second nomination)"
NO_MSG == " (no message)"
SEP == ", "
CUSTOM == "custom message: "

\* result keywords as typed; "hello" is no keyword
Keywords == {"Sucesful", "failed", "withdraw", "test", "post", "hello"}
TypeTokens == {"FA", "JA", "XA"}
ColonTokens == {"N: ", "N "}
TailTokens == {"Article", SUFFIX, NO_MSG, SEP, CUSTOM}

\* str.strip at the right and at the left end of a token
RTrim(t) ==
    CASE t = RETRY -> "retry" [] t = SEP -> "," [] t = CUSTOM -> "custom message:"
      [] t = "N: " -> "N:" [] t = "N " -> "N" [] OTHER -> t

LTrim(t) ==
    CASE t = SUFFIX -> "(second nomination)" [] t = NO_MSG -> "(no message)" [] OTHER -> t

strip(s) ==
    IF s = << >> THEN s
    ELSE LET r == [s EXCEPT ![Len(s)] = RTrim(@)] IN [r EXCEPT ![1] = LTrim(@)]

clean_text(s) == strip(s)

\* str.lower on a result keyword
lower(t) == CASE t = "Sucesful" -> "sucesful" [] OTHER -> t

\* the head of the pattern, '<result> <ntype>N: ', matches at position i
HeadAt(s, i) ==
    /\ i + 3 <= Len(s)
    /\ s[i] \in {"Sucesful", "failed", "withdraw", "test", "post"}
    /\ s[i + 1] = " "
    /\ s[i + 2] \in {"FA", "JA"}
    /\ s[i + 3] = "N: "

\* what follows the article: [suffix][no_msg][separator][custom]$
TailParse(r) ==
    LET suffix == r # << >> /\ Head(r) = SUFFIX
        r1 == IF suffix THEN Tail(r) ELSE r
        no_msg == r1 # << >> /\ Head(r1) = NO_MSG
        r2 == IF no_msg THEN Tail(r1) ELSE r1
        sep == r2 # << >> /\ Head(r2) = SEP
        r3 == IF sep THEN Tail(r2) ELSE r2
        custom == r3 # << >> /\ Head(r3) = CUSTOM
    IN  [ok |-> custom \/ r3 = << >>,
         suffix |-> IF suffix THEN << SUFFIX >> ELSE << >>,
         no_msg |-> IF no_msg THEN << NO_MSG >> ELSE << >>,
         custom |-> IF custom THEN r3 ELSE << >>]

\* str.split("custom message: ")[1]
SplitSecond(s) ==
    LET rest == Tail(s)
        stops == {i \in 1 .. Len(rest) : rest[i] = CUSTOM}
        stop == IF stops = {} THEN Len(rest) + 1
                ELSE CHOOSE i \in stops : \A j \in stops : i <= j
    IN  SubSeq(rest, 1, stop - 1)

HasColon(t) == t \in {"N: ", CUSTOM}

\* "retry " in command.split(":")[0]
RetryBeforeColon(command) ==
    \E i \in 1 .. Len(command) :
        /\ command[i] = RETRY
        /\ \A j \in 1 .. i - 1 : ~HasColon(command[j])

\* a parser that honours the retry prefix only on the first command it sees
parse_command_retry_once(command, author_name) ==
    LET s == strip(command)
        heads == {i \in 1 .. Len(s) : HeadAt(s, i)}
    IN  IF heads = {} THEN [error |-> "UnknownCommand"]
        ELSE LET i == CHOOSE k \in heads : \A j \in heads : k <= j
                 rest == SubSeq(s, i + 4, Len(s))
                 cuts == {j \in 0 .. Len(rest) : TailParse(SubSeq(rest, j + 1, Len(rest))).ok}
                 cut == CHOOSE k \in cuts : \A j \in cuts : k <= j
                 groups == TailParse(SubSeq(rest, cut + 1, Len(rest)))
                 result_str == lower(s[i])
                 custom == clean_text(groups.custom)
             IN  IF s[i + 2] \notin {"CA", "GA", "FA"} THEN [error |-> "ArchiveException"]
                 ELSE [error |-> "",
                       successful |-> result_str \in {"sucesful", "test"},
                       withdrawn |-> result_str = "withdraw",
                       test_mode |-> result_str = "test",
                       post_mode |-> result_str = "post",
                       nom_type |-> s[i + 2],
                       article_name |-> clean_text(SubSeq(rest, 1, cut)),
                       suffix |-> IF clean_text(groups.suffix) # << >>
                                  THEN << " " >> \o clean_text(groups.suffix) ELSE << >>,
                       retry |-> RetryBeforeColon(command) /\ result = << >>,
                       send_message |-> clean_text(groups.no_msg) = << >>,
                       custom_message |-> IF custom # << >> THEN strip(SplitSecond(custom)) ELSE << >>,
                       author |-> author_name]

parse_command(command, author_name) ==
    LET s == strip(command)
        heads == {i \in 1 .. Len(s) : HeadAt(s, i)}
    IN  IF heads = {} THEN [error |-> "UnknownCommand"]
        ELSE LET i == CHOOSE k \in heads : \A j \in heads : k <= j
                 rest == SubSeq(s, i + 4, Len(s))
                 cuts == {j \in 0 .. Len(rest) : TailParse(SubSeq(rest, j + 1, Len(rest))).ok}
                 cut == CHOOSE k \in cuts : \A j \in cuts : k <= j
                 groups == TailParse(SubSeq(rest, cut + 1, Len(rest)))
                 result_str == lower(s[i])
                 custom == clean_text(groups.custom)
             IN  IF s[i + 2] \notin {"CA", "GA", "FA"} THEN [error |-> "ArchiveException"]
                 ELSE [error |-> "",
                       successful |-> result_str \in {"sucesful", "test"},
                       withdrawn |-> result_str = "withdraw",
                       test_mode |-> result_str = "test",
                       post_mode |-> result_str = "post",
                       nom_type |-> s[i + 2],
                       article_name |-> clean_text(SubSeq(rest, 1, cut)),
                       suffix |-> IF clean_text(groups.suffix) # << >>
                                  THEN << " " >> \o clean_text(groups.suffix) ELSE << >>,
                       retry |-> RetryBeforeColon(command),
                       send_message |-> clean_text(groups.no_msg) = << >>,
                       custom_message |-> IF custom # << >> THEN strip(SplitSecond(custom)) ELSE << >>,
                       author |-> author_name]

CommandStrings ==
    { prefix \o << kw, " ", ty, colon >> \o tail :
        prefix \in {<< >>, << RETRY >>}, kw \in Keywords, ty \in TypeTokens,
        colon \in ColonTokens, tail \in SeqsUpTo(TailTokens, MaxTailLen) }

InitParse ==
    /\ docs \in [command : CommandStrings]
    /\ author = Author({})
    /\ cmd = Command({})
    /\ env = Env({})
    /\ pc = "received"
    /\ result = << >>
    /\ docs0 = docs
    /\ runstart = docs
    /\ loc = << >>
    /\ writes = << >>
    /\ saved = NoSaved
    /\ runs = << >>
    /\ iofails = 0

\* ArchiveCommand.parse_command(message.content, author), called once
ParseCommand ==
    /\ pc = "received"
    /\ result' = Append(result, parse_command(docs.command, author.name))
    /\ pc' = "parsed"
    /\ UNCHANGED <<cmd, author, env, docs, loc, writes, saved, runs, iofails, runstart, docs0>>

\* the same string parsed a second time
ParseCommandAgain ==
    /\ pc = "parsed"
    /\ result' = Append(result, parse_command(docs.command, author.name))
    /\ pc' = "reparsed"
    /\ UNCHANGED <<cmd, author, env, docs, loc, writes, saved, runs, iofails, runstart, docs0>>

NextParse == ParseCommand \/ ParseCommandAgain

SpecParse == InitParse /\ [][NextParse]_vars

MatchesGrammar(command) == \E i \in 1 .. Len(strip(command)) : HeadAt(strip(command), i)

----------------------------------------------------------------------------
(* The bucket of a review: calculate_date_for_review and                    *)
(* examine_review_and_prepare_results. Dates are day numbers; NoDate is a   *)
(* date that is missing or that parse_date cannot read.                     *)

MaxObjections == 2

ProbeDays == 30

\* Python's max over a non-empty set of day numbers
MaxOf(S) == CHOOSE x \in S : \A y \in S : y <= x

MinOf(S) == CHOOSE x \in S : \A y \in S : x <= y

\* the last dates of the unaddressed results that parse_date can read
ParsedDates(unaddressed) ==
    { unaddressed[i].last_date : i \in DOMAIN unaddressed } \ {NoDate}

\* a date taken from the oldest unaddressed objection
calculate_date_for_review_oldest(date_created, unaddressed) ==
    IF ParsedDates(unaddressed) = {} THEN date_created
    ELSE MinOf(ParsedDates(unaddressed))

calculate_date_for_review(date_created, unaddressed) ==
    MaxOf({date_created} \cup ParsedDates(unaddressed))

Unaddressed(objections) == SelectSeq(objections, LAMBDA o : ~o.addressed)

NoBucket == "None"

examine_review_and_prepare_results(objections, date_created, on_probation, now, bypass_check) ==
    LET unaddressed == Unaddressed(objections)
        date_to_compare == calculate_date_for_review(date_created, unaddressed)
        days == now - date_to_compare
    IN  IF unaddressed = << >> THEN "ready"
        ELSE IF ~on_probation /\ days >= ProbeDays THEN "probe"
        ELSE IF on_probation /\ (bypass_check \/ (days > 1 /\ days % 7 = 0)) THEN "probation"
        ELSE IF bypass_check \/ (days > 1 /\ days % 3 = 0) THEN "normal"
        ELSE NoBucket

ReviewDates == {NoDate, 0, 10, 25, 39}

ReviewResults ==
    { ObjectionResult(a, FALSE, FALSE, d, NoLines) : a \in BOOLEAN, d \in ReviewDates }

InitReview ==
    /\ docs \in [objections : SeqsUpTo(ReviewResults, MaxObjections), date_created : {0, 10}]
    /\ env \in [on_probation : BOOLEAN, bypass_check : BOOLEAN, now : {40, 42, 47}]
    /\ pc = "review"
    /\ result = [bucket |-> NoBucket]
    /\ cmd = Command({})
    /\ author = Author({})
    /\ docs0 = docs
    /\ runstart = docs
    /\ loc = << >>
    /\ writes = << >>
    /\ saved = NoSaved
    /\ runs = << >>
    /\ iofails = 0

ExamineReview ==
    /\ pc = "review"
    /\ result' = [bucket |-> examine_review_and_prepare_results(
                      docs.objections, docs.date_created, env.on_probation, env.now, env.bypass_check)]
    /\ pc' = "examined"
    /\ UNCHANGED <<cmd, author, env, docs, loc, writes, saved, runs, iofails, runstart, docs0>>

NextReview == ExamineReview

SpecReview == InitReview /\ [][NextReview]_vars

HasUnaddressed == Unaddressed(docs.objections) # << >>

OldestUnaddressed == MinOf(ParsedDates(Unaddressed(docs.objections)))

NewestOrCreated == MaxOf({docs.date_created} \cup ParsedDates(Unaddressed(docs.objections)))

\* C27 as the specification states it: with an unaddressed objection, an article
\* not on probation whose oldest unaddressed objection is at least 30 days old
\* is classified 'probe'.
C27_AsStated ==
    (pc = "examined" /\ HasUnaddressed /\ ParsedDates(Unaddressed(docs.objections)) # {}
        /\ ~env.on_probation /\ env.now - OldestUnaddressed >= ProbeDays)
    => result.bucket = "probe"

\* C27: with an unaddressed objection, a review of an article not on probation is
\* classified 'probe' exactly when at least 30 days have passed since the latest
\* of the creation of the review and the readable last dates of its unaddressed
\* objections.
C27_ProbeFromNewest ==
    (pc = "examined" /\ HasUnaddressed /\ ~env.on_probation)
    => (result.bucket = "probe" <=> env.now - NewestOrCreated >= ProbeDays)

\* two unaddressed objections, the older past 30 days and the newer not: no probe
C27_Witness ==
    /\ pc = "examined"
    /\ ~env.on_probation
    /\ Len(Unaddressed(docs.objections)) = 2
    /\ ParsedDates(Unaddressed(docs.objections)) # {}
    /\ env.now - OldestUnaddressed >= ProbeDays
    /\ env.now - NewestOrCreated < ProbeDays
    /\ result.bucket # "probe"

----------------------------------------------------------------------------
(* The vote-count decision of the gate over several settings of the three   *)
(* thresholds of a nomination type, on pages that pass the earlier checks   *)
(* and are between 2 and 7 days old.                                        *)

\* fast_review_votes, min_review_votes, min_total_votes
Thresholds == { << 3, 2, 4 >>, << 4, 2, 4 >>, << 3, 2, 5 >> }

NomDataWith(th) == [ t \in {"FA", "GA", "CA"} |->
    [NomData[t] EXCEPT !.fast_review_votes = th[1], !.min_review_votes = th[2],
                       !.min_total_votes = th[3]] ]

InitVotes ==
    /\ \E t \in {"FA", "GA", "CA"}, th \in Thresholds :
        \E vs \in VoteSeqs(VoteKinds(t), 1, MaxVotes) :
            /\ cmd = [Command({}) EXCEPT !.nom_type = t]
            /\ env = [Env({}) EXCEPT !.nom_data = NomDataWith(th)]
            /\ docs = [Wiki({}) EXCEPT !.nom.ageHours = 100, !.nom.inVotesCat = TRUE,
                                       !.nom.votes = vs]
    /\ author = Author({})
    /\ docs0 = docs
    /\ runstart = docs
    /\ InitRun

SpecVotes == InitVotes /\ [][NextGate]_vars

Type == env.nom_data[cmd.nom_type]

FastPass == BoardVotes >= Type.fast_review_votes

BoardAndTotal ==
    BoardVotes >= Type.min_review_votes /\ TotalVotes >= Type.min_total_votes

RelaxedFAN ==
    /\ Type.nom_type = "FAN"
    /\ BoardVotes >= Type.min_review_votes + 1
    /\ TotalVotes >= Type.min_total_votes - 1

CoveredGAN ==
    /\ Type.nom_type = "GAN"
    /\ ReviewerOrgVotes >= 1
    /\ \/ BoardVotes = Type.fast_review_votes - 1
       \/ BoardVotes = Type.min_review_votes - 1 /\ TotalVotes >= Type.min_total_votes

CountsApproved == result.message.kind \notin VoteErrors

\* C28: under 7 days of age the vote counts are approved exactly when the board
\* votes reach fast_review_votes, or board and total votes reach min_review_votes
\* and min_total_votes, or the type is FAN with min_review_votes + 1 board votes
\* and min_total_votes - 1 votes, or the type is GAN with a reviewer-org vote and
\* one board vote short of either threshold; every other count fails the run with
\* a vote-deficit error, and for a type other than GAN the reviewer-org votes
\* play no part.
C28_VoteCounts ==
    (InPipeline /\ VoteDecision) =>
        /\ CountsApproved <=> (FastPass \/ BoardAndTotal \/ RelaxedFAN \/ CoveredGAN)
        /\ ~CountsApproved => pc = "failed"
        /\ Type.nom_type # "GAN" =>
              /\ CountsApproved <=> (FastPass \/ BoardAndTotal \/ RelaxedFAN)
              /\ result.message.kind # "VoteDeficitGAN"

\* a GAN nomination one board vote short, covered by one reviewer-org vote
C28_Witness ==
    /\ InPipeline /\ VoteDecision
    /\ CoveredGAN /\ ~FastPass /\ ~BoardAndTotal
    /\ CountsApproved

----------------------------------------------------------------------------
(* The order of the checks of the gate. Each check is read off the page the *)
(* run started with, whether or not the gate comes to evaluate it.          *)

GateChecks ==
    << [fails |-> ~runstart.nom.nomLink, kinds |-> {"MissingNominatorLink"}],
       [fails |-> ~runstart.nom.nomDate, kinds |-> {"MissingNominationDate"}],
       [fails |-> runstart.nom.approved = "none", kinds |-> {"NotApproved"}],
       [fails |-> runstart.nom.approved = "leak_stuck", kinds |-> {"ApprovalHasUsername"}],
       [fails |-> ElapsedHours < 2 * 24, kinds |-> {"TooYoung"}],
       [fails |-> ~runstart.nom.inVotesCat, kinds |-> {"InsufficientVotes"}],
       [fails |-> FALSE, kinds |-> {}],
       [fails |-> ~(FastPass \/ BoardAndTotal \/ RelaxedFAN \/ CoveredGAN), kinds |-> VoteErrors],
       [fails |-> \E i \in DOMAIN SupportLines :
                      SupportLines[i].hash /\ ~(SupportLines[i].user /\ SupportLines[i].date),
        kinds |-> {"MissingDatesAndUsers", "MissingDates", "MissingUsers"}] >>

FailingChecks == {i \in DOMAIN GateChecks : GateChecks[i].fails}

FirstFailing == CHOOSE i \in FailingChecks : \A j \in FailingChecks : i <= j

GateRaised == InPipeline /\ cmd.success /\ pc = "failed"

\* C29: the gate evaluates its checks in the order nominator link, nomination
\* date, approval marker, username in the marker, age of 2 days, sufficient-votes
\* category, 7-day grace, vote counts, vote-line fields: the error of a rejected
\* run is that of the first check in this order that fails on the page, and a
\* page that fails one of the first five checks is always rejected.
C29_FirstFailingCheck ==
    (InPipeline /\ cmd.success) =>
        LET checks == GateChecks
            failing == {i \in DOMAIN checks : checks[i].fails}
            first == CHOOSE i \in failing : \A j \in failing : i <= j
        IN  /\ pc = "failed" => (failing # {} /\ result.message.kind \in checks[first].kinds)
            /\ (failing # {} /\ first <= 5) => pc = "failed"

\* a page that is too young and has no approval marker: the marker is reported
C29_Witness ==
    /\ GateRaised
    /\ GateChecks[3].fails /\ GateChecks[5].fails /\ GateChecks[8].fails
    /\ FirstFailing = 3
    /\ result.message.kind = "NotApproved"

----------------------------------------------------------------------------
(* build_objection_trees: the walk over the lines of a nomination or review *)
(* page, one step per line. A tree maps a depth to the number of the line   *)
(* that stands at that depth.                                               *)

MaxLines == 4

Bullet(depth, colon) == [k |-> "bullet", depth |-> depth, colon |-> colon]

\* "===Object===", "===Comments===", another line that starts with "===", text
ObjectHeader == [k |-> "object", depth |-> 0, colon |-> FALSE]
CommentsHeader == [k |-> "comments", depth |-> 0, colon |-> FALSE]
OtherHeader == [k |-> "header", depth |-> 0, colon |-> FALSE]
TextLine == [k |-> "text", depth |-> 0, colon |-> FALSE]

EmptyTree == [d \in {} |-> 0]

Emitted(nested, tree) == [nested |-> nested, tree |-> tree]

\* {k: v for k, v in current_tree.items() if k < n}
Below(tree, n) == [d \in {k \in DOMAIN tree : k < n} |-> tree[d]]

\* current_tree[n] = line
Place(tree, n, i) == [d \in DOMAIN tree \cup {n} |-> IF d = n THEN i ELSE tree[d]]

WalkStart ==
    [i |-> 1, objections_found |-> FALSE, initial_section_found |-> FALSE, sections |-> << >>,
     current_section |-> << >>, current_tree |-> EmptyTree, nested |-> FALSE, over |-> FALSE]

\* the body of the loop for the line at position st.i
build_objection_trees_line(st, line) ==
    LET next == [st EXCEPT !.i = @ + 1]
        closed == Append(st.current_section, Emitted(st.nested, st.current_tree))
        n == line.depth
    IN  IF ~st.objections_found
        THEN [next EXCEPT !.objections_found = (line.k = "object")]
        ELSE IF line.k = "comments"
        THEN [next EXCEPT !.current_section = closed, !.sections = Append(@, closed), !.over = TRUE]
        ELSE IF line.k \in {"header", "object"}
        THEN IF st.initial_section_found
             THEN [next EXCEPT !.sections = Append(@, closed), !.current_section = << >>,
                               !.current_tree = EmptyTree]
             ELSE [next EXCEPT !.initial_section_found = TRUE, !.current_section = << >>,
                               !.current_tree = EmptyTree]
        ELSE IF line.k # "bullet" THEN next
        ELSE IF n = 1 /\ line.colon /\ 1 \in DOMAIN st.current_tree
        THEN [next EXCEPT !.current_tree = Place(EmptyTree, n, st.i)]
        ELSE IF n = 1
        THEN [next EXCEPT !.current_section = closed, !.nested = FALSE,
                          !.current_tree = Place(EmptyTree, n, st.i)]
        ELSE IF st.nested /\ n \in DOMAIN st.current_tree
        THEN [next EXCEPT !.current_section = closed,
                          !.current_tree = Place(Below(st.current_tree, n), n, st.i)]
        ELSE IF n = 2 /\ 2 \in DOMAIN st.current_tree
        THEN [next EXCEPT !.nested = TRUE,
                          !.current_section = Append(st.current_section, Emitted(TRUE, st.current_tree)),
                          !.current_tree = Place(Below(st.current_tree, n), n, st.i)]
        ELSE [next EXCEPT !.current_tree = Place(st.current_tree, n, st.i)]

BodyLines ==
    { Bullet(d, c) : d \in 1 .. MaxDepth, c \in BOOLEAN } \cup {OtherHeader, TextLine}

InitTrees ==
    /\ \E body \in SeqsUpTo(BodyLines, MaxLines), tail \in {<< >>, << CommentsHeader >>} :
        docs = [lines |-> << TextLine, ObjectHeader >> \o body \o tail]
    /\ loc = WalkStart
    /\ pc = "walk"
    /\ result = [sections |-> << >>]
    /\ cmd = Command({})
    /\ author = Author({})
    /\ env = Env({})
    /\ docs0 = docs
    /\ runstart = docs
    /\ writes = << >>
    /\ saved = NoSaved
    /\ runs = << >>
    /\ iofails = 0

\* one turn of the loop of build_objection_trees
WalkLine ==
    /\ pc = "walk"
    /\ ~loc.over
    /\ loc.i <= Len(docs.lines)
    /\ loc' = build_objection_trees_line(loc, docs.lines[loc.i])
    /\ UNCHANGED <<cmd, author, env, docs, pc, result, writes, saved, runs, iofails, runstart, docs0>>

\* the loop ends at "===Comments===" or after the last line: return sections
ReturnSections ==
    /\ pc = "walk"
    /\ loc.over \/ loc.i > Len(docs.lines)
    /\ result' = [sections |-> loc.sections]
    /\ pc' = "returned"
    /\ UNCHANGED <<cmd, author, env, docs, loc, writes, saved, runs, iofails, runstart, docs0>>

NextTrees == WalkLine \/ ReturnSections

SpecTrees == InitTrees /\ [][NextTrees]_vars

\* the line the loop is about to read is a bullet whose depth the tree holds
DepthPresent ==
    /\ pc = "walk" /\ ~loc.over /\ loc.i <= Len(docs.lines)
    /\ loc.objections_found
    /\ docs.lines[loc.i].k = "bullet"
    /\ docs.lines[loc.i].depth \in DOMAIN loc.current_tree

\* the current tree is appended to the section as it stands
TreeEmitted ==
    /\ Len(loc'.current_section) = Len(loc.current_section) + 1
    /\ loc'.current_section[Len(loc'.current_section)].tree = loc.current_tree

\* a line of the current tree is gone from it
LineLost == \E d \in DOMAIN loc.current_tree :
    d \notin DOMAIN loc'.current_tree \/ loc'.current_tree[d] # loc.current_tree[d]

\* C30: whenever the depth of a bullet line is already in the current tree, the
\* tree is closed and emitted before the line starts a new one, and no line of
\* the current tree is overwritten or dropped unless that tree has been emitted
C30_EmitBeforeReplace ==
    [][ (pc = "walk" /\ loc' # loc) =>
            /\ DepthPresent => TreeEmitted
            /\ (LineLost /\ docs.lines[loc.i].k = "bullet") => TreeEmitted ]_vars


\* the trees of the returned sections, one after another
RECURSIVE Flatten(_)
Flatten(ss) == IF ss = << >> THEN << >> ELSE Head(ss) \o Flatten(Tail(ss))

EmittedTrees == Flatten(result.sections)

\* the positions of the lines that end the objection area
CommentsAt == {i \in DOMAIN docs.lines : docs.lines[i].k = "comments"}

ObjectAt == CHOOSE i \in DOMAIN docs.lines : docs.lines[i].k = "object"

InObjectArea(i) == i > ObjectAt /\ \A j \in CommentsAt : i < j

\* the depth-1 bullet lines of the objection area
RootLines ==
    {i \in DOMAIN docs.lines :
        InObjectArea(i) /\ docs.lines[i].k = "bullet" /\ docs.lines[i].depth = 1}

RootedAt(i) ==
    {t \in DOMAIN EmittedTrees :
        1 \in DOMAIN EmittedTrees[t].tree /\ EmittedTrees[t].tree[1] = i}

\* C31: every depth-1 line between the Object marker and the end of the objection
\* area is the root of exactly one emitted tree, under the Object marker itself
\* or under a sub-heading, with or without a Comments marker; no line after the
\* Comments marker is in a tree
C31_EveryRootEmittedOnce ==
    pc = "returned" =>
        /\ \A i \in RootLines : Cardinality(RootedAt(i)) = 1
        /\ \A t \in DOMAIN EmittedTrees : \A d \in DOMAIN EmittedTrees[t].tree :
              InObjectArea(EmittedTrees[t].tree[d])

----------------------------------------------------------------------------
(* fix_missing_strikethroughs: the pass over the trees of one section that  *)
(* adds "<s>" to lines inside a strike-through left open by an earlier tree.*)
(* A line is the number of "<s>" and of "</s>" it contains.                 *)

MaxTrees == 3

Tags(open, close) == [open |-> open, close |-> close]

TagLines == { Tags(0, 0), Tags(1, 0), Tags(0, 1) }

\* re.sub("^(:?\*+)[ ]*", "\\1<s>", line)
AddStrike(line) == [line EXCEPT !.open = @ + 1]

\* the body of the loop for tree i; a tree without a line at depth 1 raises KeyError
fix_missing_strikethroughs_tree(st, i) ==
    LET n == st.section[i].nested
        t == st.section[i].lines
    IN  IF DOMAIN t = {} THEN st
        ELSE IF 1 \notin DOMAIN t THEN [st EXCEPT !.error = TRUE]
        ELSE LET t1 == IF st.s_diff > 0 /\ ~n /\ t[1].open = 0
                       THEN [t EXCEPT ![1] = AddStrike(@)]
                       ELSE IF st.s_diff > 0 /\ n /\ 2 \in DOMAIN t /\ t[2].open = 0
                       THEN [t EXCEPT ![2] = AddStrike(@)]
                       ELSE t
                 d1 == st.s_diff + t1[1].open - t1[1].close
                 d2 == IF n /\ 2 \in DOMAIN t1 THEN d1 + t1[2].open - t1[2].close ELSE d1
             IN  [st EXCEPT !.section[i].lines = t1, !.s_diff = d2]

RECURSIVE fix_missing_strikethroughs(_, _, _)
fix_missing_strikethroughs(section, i, st) ==
    IF i > Len(section) \/ st.error THEN st
    ELSE fix_missing_strikethroughs(section, i + 1, fix_missing_strikethroughs_tree(st, i))

StrikeTrees ==
    {ObjTree(FALSE, EmptyTree)} \cup
    UNION { { ObjTree(n, f) : n \in BOOLEAN, f \in [K -> TagLines] } : K \in {{1}, {1, 2}, {2}} }

InitStrike ==
    /\ docs \in [section : SeqsUpTo(StrikeTrees, MaxTrees)]
    /\ pc = "trees"
    /\ result = [section |-> << >>, s_diff |-> 0, error |-> FALSE]
    /\ loc = << >>
    /\ cmd = Command({})
    /\ author = Author({})
    /\ env = Env({})
    /\ docs0 = docs
    /\ runstart = docs
    /\ writes = << >>
    /\ saved = NoSaved
    /\ runs = << >>
    /\ iofails = 0

FixMissingStrikethroughs ==
    /\ pc = "trees"
    /\ result' = fix_missing_strikethroughs(docs.section, 1,
                     [section |-> docs.section, s_diff |-> 0, error |-> FALSE])
    /\ pc' = "fixed"
    /\ UNCHANGED <<cmd, author, env, docs, loc, writes, saved, runs, iofails, runstart, docs0>>

NextStrike == FixMissingStrikethroughs

SpecStrike == InitStrike /\ [][NextStrike]_vars

\* the pass has added "<s>" to a line of tree i
MarkedByPass(i) ==
    \E d \in DOMAIN docs.section[i].lines :
        result.section[i].lines[d].open > docs.section[i].lines[d].open

RECURSIVE SumTags(_, _)
SumTags(lines, K) ==
    IF K = {} THEN 0
    ELSE LET k == CHOOSE x \in K : TRUE
         IN  lines[k].open - lines[k].close + SumTags(lines, K \ {k})

\* tree j opens a strike-through it does not close
OpensStrike(j) == SumTags(docs.section[j].lines, DOMAIN docs.section[j].lines) > 0

HasClosingTag(k) == \E d \in DOMAIN docs.section[k].lines : docs.section[k].lines[d].close > 0

\* C32: the pass adds a strike marker to a line of a tree only if the tree stands
\* after a tree with an unmatched opening tag and no tree between the two holds
\* the closing tag: once the closing tag has appeared, at any depth, no later
\* tree is marked
C32_StrikeOnlyInsideSpan ==
    pc = "fixed" =>
        \A i \in DOMAIN docs.section :
            MarkedByPass(i) =>
                \E j \in 1 .. i - 1 :
                    /\ OpensStrike(j)
                    /\ \A k \in j + 1 .. i - 1 : ~HasClosingTag(k)

----------------------------------------------------------------------------
(* A sequence of successful archive commands for one nomination, plain and  *)
(* retry, sent by members of the review board one after another or while    *)
(* an earlier one is still being handled.                                   *)

MaxCommands == 3

InitCounts ==
    /\ cmd \in [Handlers -> [op : {"archive"}, success : {TRUE}, retry : BOOLEAN]]
    /\ author = [t \in Handlers |-> [role |-> "board"]]
    /\ env = [failed |-> << >>, counts |-> 0, successful_count |-> 0, queue |-> 0,
              schedule |-> "CAN", archived |-> FALSE, handled |-> 1, rankings |-> 0]
    /\ pc = [t \in Handlers \cup {"check"} |->
                CASE t = "check" -> "idle" [] t = "h1" -> "received" [] OTHER -> "over"]
    /\ result = [t \in Handlers |-> NoOutcome]
    /\ docs = << >>
    /\ docs0 = docs
    /\ runstart = docs
    /\ loc = << >>
    /\ writes = << >>
    /\ saved = NoSaved
    /\ runs = << >>
    /\ iofails = 0

\* on_message: the next command for the nomination reaches a handler
NextCommand(t) ==
    /\ pc[t] = "over"
    /\ env.handled < MaxCommands
    /\ \E retry \in BOOLEAN : cmd' = [cmd EXCEPT ![t].retry = retry]
    /\ pc' = [pc EXCEPT ![t] = "received"]
    /\ result' = [result EXCEPT ![t] = NoOutcome]
    /\ env' = [env EXCEPT !.handled = @ + 1]
    /\ UNCHANGED <<author, docs, loc, writes, saved, runs, iofails, runstart, docs0>>

NextCounts ==
    \/ \E t \in Handlers : NextCommand(t)
    \/ \E t \in Handlers : HandleCommand(t)
    \/ \E t \in Handlers : ProcessArchiveCommand(t)
    \/ \E t \in Handlers : ArchiveOutcome(t)
    \/ \E t \in Handlers : Respond(t)
    \/ \E t \in Handlers : Followup(t)
    \/ \E t \in Handlers : Rankings(t)

SpecCounts == InitCounts /\ [][NextCounts]_vars

AllOver == \A t \in Handlers : pc[t] = "over"

\* C33: over any sequence of failed runs, plain runs and retries for one
\* nomination the yearly counter of the type is incremented at most once, and
\* once exactly when the nomination ends archived as successful; a successful
\* retry increments it only when a failure of the article is on record
C33_CountedOnce ==
    /\ env.counts <= 1
    /\ (AllOver /\ env.archived) => env.counts = 1


\* C34: replaying a completed successful command with retry has no second
\* follow-up effect: the article is in the post queue once and the nominator's
\* count in the current-year rankings has gone up once
C34_ReplayNoSecondEffect ==
    /\ env.queue <= 1
    /\ env.rankings <= 1

----------------------------------------------------------------------------
(* Reviewer.update_review_history_with_removal. History page lines: "head"  *)
(* the table header, "sep" a row separator |-, "row" a row written with the *)
(* markers <!--2--> and <!--3-->, "oldrow" a row without them (s the review *)
(* page the row links; n = 1 once the row shows the new end date and        *)
(* Revoked), "end" the closing |}. The article page has "text" lines and    *)
(* may hold a table with its own "end".                                     *)

MaxRows == 3

ThisReview == "review"
OtherReview == "other review"

\* f"[[{review_page_name} |" in line or f"[[{review_page_name}|" in line
LinksReview(line, review_page_name) ==
    line.k \in {"row", "oldrow"} /\ line.s = review_page_name

\* the two re.sub calls: they rewrite what stands after the markers
Revoke(line) == IF line.k = "row" THEN [line EXCEPT !.n = 1] ELSE line

update_review_history_with_removal(history, article, review_page_name) ==
    LET new_lines == [i \in DOMAIN SelectSeq(history, LAMBDA x : LinksReview(x, review_page_name)) |->
                         Revoke(SelectSeq(history, LAMBDA x : LinksReview(x, review_page_name))[i])]
        found == \E i \in DOMAIN history : LinksReview(history[i], review_page_name)
        new_row == << L("sep"), LSN("oldrow", review_page_name, 1) >>
    IN  IF found THEN new_lines
        ELSE replace_end(article, 1, new_row)

ReviewHistoryRows ==
    { LSN("row", ThisReview, 0), LSN("oldrow", ThisReview, 0), LSN("row", OtherReview, 0) }

RECURSIVE WithSeparators(_)
WithSeparators(rows) ==
    IF rows = << >> THEN << >> ELSE << L("sep"), Head(rows) >> \o WithSeparators(Tail(rows))

InitReviewHistory ==
    /\ \E rows \in SeqsUpTo(ReviewHistoryRows, MaxRows),
          article \in { << L("text") >>, << L("text"), L("end") >> } :
        docs = [history |-> << L("head") >> \o WithSeparators(rows) \o << L("end") >>,
                article |-> article]
    /\ pc = "former"
    /\ result = [history |-> << >>]
    /\ loc = << >>
    /\ cmd = Command({})
    /\ author = Author({})
    /\ env = Env({})
    /\ docs0 = docs
    /\ runstart = docs
    /\ writes = << >>
    /\ saved = NoSaved
    /\ runs = << >>
    /\ iofails = 0

\* history_page.put(new_text, ...)
UpdateReviewHistoryWithRemoval ==
    /\ pc = "former"
    /\ docs' = [docs EXCEPT !.history =
                   update_review_history_with_removal(docs.history, docs.article, ThisReview)]
    /\ writes' = << "history" >>
    /\ pc' = "updated"
    /\ UNCHANGED <<cmd, author, env, result, loc, saved, runs, iofails, runstart, docs0>>

NextReviewHistory == UpdateReviewHistoryWithRemoval

SpecReviewHistory == InitReviewHistory /\ [][NextReviewHistory]_vars

RowOfReview == \E i \in DOMAIN docs0.history : LinksReview(docs0.history[i], ThisReview)

\* the page without the lines that link the review, and without one trailing separator
\* before each of them
LinesOfOthers(lines) == SelectSeq(lines, LAMBDA x : ~LinksReview(x, ThisReview) /\ x.k # "sep")

\* C35: the update of the review history for a status removal changes only the
\* row of the review that is closed, or appends one row when there is none;
\* every other line of the history page stays as it was
C35_OnlyClosedRowChanges ==
    pc = "updated" =>
        IF RowOfReview
        THEN /\ Len(docs.history) = Len(docs0.history)
             /\ \A i \in DOMAIN docs0.history :
                   ~LinksReview(docs0.history[i], ThisReview) => docs.history[i] = docs0.history[i]
        ELSE /\ LinesOfOthers(docs.history) = LinesOfOthers(docs0.history)
             /\ Len(docs.history) = Len(docs0.history) + 2


----------------------------------------------------------------------------
(* The nomination-subpage step and the per-nominator archive category:      *)
(* Archiver.archive_nomination_page creates the category page (lines        *)
(* 416-420) before it tests whether the nomination category line was found  *)
(* (lines 429-433).                                                         *)

\* the loop over the nomination page did not find the nomination category line
NomCategoryMissing ==
    ~archive_loop(docs.nom.lines, 1, FALSE, FALSE, << >>).found

\* the step in progress is the nomination-subpage step and it raises
NomPageStepRaises == pc = "nompage" /\ pc' = "failed"

\* the step returns without putting the nomination page for want of the category line
NomPageStepNoOp == pc = "nompage" /\ pc' = "talk" /\ NomCategoryMissing

\* C36: when the nomination-subpage step raises, or returns without archiving
\* because the nomination category line is not found, it has written no page:
\* the wiki after the step is the wiki before it, the archive category included
C36_NoPageWrittenOnFailure ==
    [][(NomPageStepRaises \/ NomPageStepNoOp) => docs' = docs]_vars


----------------------------------------------------------------------------
(* The status banners of the talk page across the merge of a nomination     *)
(* that did not succeed: build_talk_page drops every {{CA}}, {{FA}} and     *)
(* {{GA}} line of a page with a history wrapper (lines 81-83) whatever the  *)
(* success flag.                                                            *)

\* the current-status banners of a talk page text, in order
StatusBanners(text) == SelectSeq(text, LAMBDA x : x.k = "status")

\* the archiver's merge has just been applied for an outcome that is not a success
MergedUnsuccessful ==
    /\ pc = "talk"
    /\ Len(runs) >= 1
    /\ ~cmd.success
    /\ runs[Len(runs)].err = NoErr

\* C37: the merge for an unsuccessful or withdrawn outcome adds no status
\* banner and leaves every current-status banner of the talk page in place
C37_BannersKeptUnlessSuccessful ==
    MergedUnsuccessful =>
        StatusBanners(docs.talk.lines) = StatusBanners(runstart.talk.lines)


----------------------------------------------------------------------------
(* The reading of a review page: examine_objections_on_review with its      *)
(* except clause, and examine_review_and_prepare_results on what it         *)
(* returns.  A review page is its read outcome ("ok", "raise": every get    *)
(* raises, "raise_once": the first get raises and the next succeeds),       *)
(* whether the page of the target article exists, whether the article is    *)
(* on probation, and the trees of its one objection section.  A struck      *)
(* line holds "<s>" and "</s>" once each.                                   *)

TagsOf(line) == IF line.s THEN Tags(1, 1) ELSE Tags(0, 0)

TagSection(section) ==
    [i \in DOMAIN section |->
        [nested |-> section[i].nested,
         lines |-> [d \in DOMAIN section[i].lines |-> TagsOf(section[i].lines[d])]]]

\* fix_missing_strikethroughs raises KeyError on the section
StrikePassRaises(section) ==
    fix_missing_strikethroughs(TagSection(section), 1,
        [section |-> TagSection(section), s_diff |-> 0, error |-> FALSE]).error

\* the return of the except clause: None, False, {True: {}, False: {}}
NothingExamined == [target |-> "None", on_probation |-> FALSE, objections |-> << >>]

examine_objections_on_review(page) ==
    IF page.read # "ok" THEN NothingExamined
    ELSE IF ~page.target_exists THEN NothingExamined
    ELSE IF StrikePassRaises(page.section) THEN NothingExamined
    ELSE [target |-> "target", on_probation |-> page.on_probation,
          objections |-> identify_review_objections(extract_actual_objections(page.section), 1)]

Raised == "raised"

\* examine_review_and_prepare_results on the page: the status it returns,
\* Raised when the second get of the page raises as the first did
examine_review_page(review, now, bypass_check) ==
    LET r == examine_objections_on_review(review)
    IN  IF review.read = "raise" THEN Raised
        ELSE examine_review_and_prepare_results(r.objections, review.date_created,
                                                r.on_probation, now, bypass_check)

ReviewPages ==
    { [read |-> rd, target_exists |-> te, on_probation |-> p, date_created |-> 0,
       section |-> << ObjTree(FALSE, NoLines), t >>] :
        rd \in {"ok", "raise", "raise_once"}, te \in BOOLEAN, p \in BOOLEAN, t \in Trees }

InitExamine ==
    /\ docs \in ReviewPages
    /\ env \in [bypass_check : BOOLEAN, now : {42, 47}]
    /\ pc = "review"
    /\ result = [bucket |-> NoBucket]
    /\ cmd = Command({})
    /\ author = Author({})
    /\ docs0 = docs
    /\ runstart = docs
    /\ loc = << >>
    /\ writes = << >>
    /\ saved = NoSaved
    /\ runs = << >>
    /\ iofails = 0

ExamineReviewPage ==
    /\ pc = "review"
    /\ result' = [bucket |-> examine_review_page(docs, env.now, env.bypass_check)]
    /\ pc' = "examined"
    /\ UNCHANGED <<cmd, author, env, docs, loc, writes, saved, runs, iofails, runstart, docs0>>

NextExamine == ExamineReviewPage

SpecExamine == InitExamine /\ [][NextExamine]_vars

\* the discussion page, or the article page read for the probation flag, could not be read
ReadFailed == docs.read # "ok" \/ ~docs.target_exists

\* the trees of the page could not be parsed
ParseFailed == StrikePassRaises(docs.section)

\* C38: a review is reported 'ready' only if its page was read and parsed
\* without error and holds no unaddressed objection; a failure never yields 'ready'
C38_ReadyOnlyWhenExamined ==
    (pc = "examined" /\ result.bucket = "ready") =>
        /\ ~ReadFailed
        /\ ~ParseFailed
        /\ Unaddressed(examine_objections_on_review(docs).objections) = << >>


----------------------------------------------------------------------------
(* The post queue: BlueskyBot.add_post_to_queue, scheduled_post and         *)
(* post_article_to_bluesky.  env.post_queue and env.backlog are the two     *)
(* lists, env.last_post_time whether a last post time is set, env.added     *)
(* the articles queued so far, env.attempts the articles handed to          *)
(* post_article_to_bluesky and env.posted those whose posting completed.    *)

MaxPosts == 3

InitPost ==
    /\ env \in [post_queue : {<< >>}, backlog : {<< >>, << 0 >>}, last_post_time : BOOLEAN,
                added : {<< >>}, attempts : {<< >>}, posted : {<< >>}]
    /\ pc = "idle"
    /\ docs = [x \in {} |-> 0]
    /\ result = NoResult
    /\ cmd = Command({})
    /\ author = Author({})
    /\ docs0 = docs
    /\ runstart = docs
    /\ loc = << >>
    /\ writes = << >>
    /\ saved = NoSaved
    /\ runs = << >>
    /\ iofails = 0

PostUnchanged == UNCHANGED <<cmd, author, docs, pc, result, loc, writes, saved, runs, iofails, runstart, docs0>>

\* the articles are numbered in the order they are queued
AddPostToQueue ==
    /\ Len(env.added) < MaxPosts
    /\ LET info == Len(env.added) + 1
       IN  env' = [env EXCEPT !.post_queue = Append(@, info), !.added = Append(@, info)]
    /\ PostUnchanged

\* post_article_to_bluesky: an exception of the posting is logged, not raised
post_article_to_bluesky(e, info, ok) ==
    IF ok THEN [e EXCEPT !.attempts = Append(@, info), !.posted = Append(@, info),
                         !.last_post_time = TRUE]
    ELSE [e EXCEPT !.attempts = Append(@, info)]

\* elapsed: the window since the last post is over
scheduled_post(e, bypass, elapsed, ok) ==
    IF e.last_post_time /\ ~bypass /\ ~elapsed THEN e
    ELSE LET e1 == IF e.last_post_time /\ ~bypass THEN [e EXCEPT !.last_post_time = FALSE] ELSE e
         IN  IF Len(e1.post_queue) > 0
             THEN post_article_to_bluesky([e1 EXCEPT !.post_queue = Tail(@)], Head(e1.post_queue), ok)
             ELSE IF Len(e1.backlog) > 0
             THEN post_article_to_bluesky(
                      [e1 EXCEPT !.backlog = SubSeq(@, 1, Len(@) - 1)], e1.backlog[Len(e1.backlog)], ok)
             ELSE e1

ScheduledPost ==
    /\ \E bypass, elapsed, ok \in BOOLEAN : env' = scheduled_post(env, bypass, elapsed, ok)
    /\ PostUnchanged

NextPost == AddPostToQueue \/ ScheduledPost

SpecPost == InitPost /\ [][NextPost]_vars

InSeq(x, s) == \E i \in DOMAIN s : s[i] = x

\* the attempts made on articles of the queue, the backlog left aside
QueueAttempts == SelectSeq(env.attempts, LAMBDA a : a # 0)

\* C39: an article added to the queue is in the queue until it has been posted,
\* a failed attempt does not take it out, and the queued articles are
\* attempted in the order they were added
C39_QueuedUntilPosted ==
    /\ \A i \in DOMAIN env.added : InSeq(env.added[i], env.post_queue) \/ InSeq(env.added[i], env.posted)
    /\ QueueAttempts = SubSeq(env.added, 1, Len(QueueAttempts))


----------------------------------------------------------------------------
(* The two revisions of a run over revision histories of every shape:       *)
(* common.calculate_revisions, called by archive_process_after_check once   *)
(* the article has been edited.  A revision's id is its place in the        *)
(* history, oldest first.                                                   *)

MaxRevs == 4

RevisionKinds == {"other", "Added", "Mention", "Successful"}

Histories ==
    { [i \in DOMAIN h |-> Rev(i, IF h[i] = "Successful" THEN Bot ELSE Nominator, h[i],
                              IF h[i] = "other" THEN "" ELSE "FA")] :
        h \in SeqsUpTo(RevisionKinds, MaxRevs) }

InitRevisions ==
    /\ \E revs \in Histories : docs = [Wiki({}) EXCEPT !.article.revs = revs]
    /\ cmd \in {Command({}), Command({"retry"})}
    /\ pc = "revisions"
    /\ loc = NoLocals
    /\ result = NoResult
    /\ author = Author({})
    /\ env = Env({})
    /\ docs0 = docs
    /\ runstart = docs
    /\ writes = << >>
    /\ saved = NoSaved
    /\ runs = << >>
    /\ iofails = 0

ResolveRevisions ==
    /\ pc = "revisions"
    /\ LET r == calculate_revisions(docs, cmd, loc)
       IN  /\ loc' = r.l
           /\ pc' = IF r.err = NoErr THEN "resolved" ELSE "failed"
           /\ result' = [completed |-> FALSE, has_result |-> TRUE, message |-> r.err]
    /\ UNCHANGED <<cmd, author, env, docs, writes, saved, runs, iofails, runstart, docs0>>

NextRevisions == ResolveRevisions

SpecRevisions == InitRevisions /\ [][NextRevisions]_vars

\* the most recent revision that added the nomination marker
LatestAdded == calculate_nominated_revision(docs.article.revs, cmd.nom_type)

\* a completion edit of this run's summary stands after the latest nomination
CompletionAfterNomination ==
    \E i \in DOMAIN docs.article.revs :
        /\ docs.article.revs[i].c = CommentOf(cmd)
        /\ docs.article.revs[i].id > LatestAdded.id

\* C40: the completed revision returned is never older than the nominated
\* revision returned with it, the nominated revision is the most recent one
\* that added the nomination marker, and when no completion edit newer than
\* that nomination exists the step fails
C40_RevisionsOfOneCycle ==
    /\ pc = "resolved" =>
        /\ loc.comp.id >= loc.nomi.id
        /\ loc.nomi = LatestAdded
    /\ (pc \in {"resolved", "failed"} /\ ~CompletionAfterNomination) => pc = "failed"

=============================================================================
